---- MODULE Spec2Model ----
(***************************************************************************)
(* Model of the MongoDB query/command translation layer of mcp-dbs         *)
(* (MongoDBDatabase.query / execute and their helpers parseShellSyntax,    *)
(* splitArgs and normalizeQueryObject).                                    *)
(*                                                                         *)
(* Request texts are sequences of lexemes: a lexeme is a punctuation       *)
(* character, a blank, or a maximal run of word characters.  JavaScript    *)
(* strings are therefore sequences of lexemes too.  A JavaScript value is  *)
(* a record [t, s, keys, kids]: t is the type tag, s the scalar payload    *)
(* (lexemes), keys/kids the ordered members of an object, kids the items   *)
(* of an array.                                                            *)
(***************************************************************************)
EXTENDS Integers, Sequences, FiniteSets, TLC

VARIABLES
  \* a MongoDBDatabase, the request made of it and the outcome of its last call
  client, db, text, params, last,
  \* one instance of each backend, what happened to it, and the last outcome
  inst, history, outcome,
  \* a connect-database request with its environment, and what it connected with
  setup, connection,
  \* the server: its registry, the tool calls in flight, the Database objects
  \* they created and the last reply
  databases, calls, objects, reply

mongoVars == <<client, db, text, params, last>>

backendVars == <<inst, history, outcome>>

configVars == <<setup, connection>>

serverVars == <<databases, calls, objects, reply>>

vars == <<mongoVars, backendVars, configVars, serverVars>>

\* the parts of the state a specification does not use stay empty
MongoUnused == client = FALSE /\ db = FALSE /\ text = <<>> /\ params = <<>> /\ last = <<>>

BackendUnused == inst = <<>> /\ history = <<>> /\ outcome = <<>>

ConfigUnused == setup = <<>> /\ connection = <<>>

ServerUnused == databases = <<>> /\ calls = <<>> /\ objects = <<>> /\ reply = <<>>

-----------------------------------------------------------------------------
(* JavaScript values *)

Undef == [t |-> "undef", s |-> <<>>, keys |-> <<>>, kids |-> <<>>]

Null == [t |-> "null", s |-> <<>>, keys |-> <<>>, kids |-> <<>>]

Bool(b) == [t |-> "bool", s |-> <<IF b THEN "true" ELSE "false">>, keys |-> <<>>, kids |-> <<>>]

Num(w) == [t |-> "num", s |-> <<w>>, keys |-> <<>>, kids |-> <<>>]

Str(ls) == [t |-> "str", s |-> ls, keys |-> <<>>, kids |-> <<>>]

Arr(items) == [t |-> "arr", s |-> <<>>, keys |-> <<>>, kids |-> items]

Obj(ks, vs) == [t |-> "obj", s |-> <<>>, keys |-> ks, kids |-> vs]

EmptyObj == Obj(<<>>, <<>>)

EmptyArr == Arr(<<>>)

IsObj(v) == v.t = "obj"

IsArr(v) == v.t = "arr"

\* JavaScript truthiness (used by every `a && b`, `!a`, `a || b` of the code)
Truthy(v) ==
  CASE v.t \in {"undef", "null"} -> FALSE
    [] v.t = "bool" -> v.s = <<"true">>
    [] v.t = "num" -> v.s \notin {<<"0">>, <<"NaN">>}
    [] v.t = "str" -> v.s # <<>>
    [] OTHER -> TRUE

\* a || b
OrElse(a, b) == IF Truthy(a) THEN a ELSE b

\* index of key k among the own keys of v (0 when absent)
KeyIndex(v, k) ==
  IF \E i \in 1..Len(v.keys) : v.keys[i] = k
  THEN CHOOSE i \in 1..Len(v.keys) : v.keys[i] = k
  ELSE 0

HasKey(v, k) == IsObj(v) /\ KeyIndex(v, k) # 0

\* v.k / v[k]: undefined when v has no such own property
Get(v, k) == IF HasKey(v, k) THEN v.kids[KeyIndex(v, k)] ELSE Undef

\* v[k] = x: an existing key keeps its position, a new one is appended
SetKey(v, k, x) ==
  IF HasKey(v, k)
  THEN Obj(v.keys, [v.kids EXCEPT ![KeyIndex(v, k)] = x])
  ELSE Obj(Append(v.keys, k), Append(v.kids, x))

\* args[i] of a JavaScript array value (0-based), undefined out of range
At(v, i) == IF IsArr(v) /\ i + 1 <= Len(v.kids) THEN v.kids[i + 1] ELSE Undef

\* args.length of a JavaScript array value
Length(v) == IF IsArr(v) THEN Len(v.kids) ELSE 0

-----------------------------------------------------------------------------
(* Lexemes *)

Blank == " "

DQ == "\""

SQ == "'"

NumWords == {"0", "1", "2", "5", "10", "21"}

\* a maximal run of word characters (\w+)
IsWord(l) ==
  /\ l \notin {"{", "}", "[", "]", "(", ")", ",", ":", ".", DQ, SQ, Blank, "\\", ""}
  /\ l \notin {"$match", "$sort", "$limit", "$gt", "$set"}

\* text.trim()
RECURSIVE TrimLeft(_)
TrimLeft(ls) == IF ls # <<>> /\ Head(ls) = Blank THEN TrimLeft(Tail(ls)) ELSE ls

RECURSIVE TrimRight(_)
TrimRight(ls) ==
  IF ls # <<>> /\ ls[Len(ls)] = Blank THEN TrimRight(SubSeq(ls, 1, Len(ls) - 1)) ELSE ls

Trim(ls) == TrimRight(TrimLeft(ls))

-----------------------------------------------------------------------------
(* JSON.parse over lexemes *)

ParseFail == [ok |-> FALSE, v |-> Undef, nx |-> 0]

ParseOk(v, nx) == [ok |-> TRUE, v |-> v, nx |-> nx]

RECURSIVE SkipWs(_, _)
SkipWs(ls, i) == IF i <= Len(ls) /\ ls[i] = Blank THEN SkipWs(ls, i + 1) ELSE i

\* index of the double quote closing the string opened before position i (0: none)
RECURSIVE CloseQuote(_, _)
CloseQuote(ls, i) ==
  IF i > Len(ls) THEN 0
  ELSE IF ls[i] = DQ THEN i
  ELSE IF ls[i] = "\\" THEN CloseQuote(ls, i + 2)
  ELSE CloseQuote(ls, i + 1)

RECURSIVE ParseValue(_, _), ParseElements(_, _, _), ParseMembers(_, _, _)

ParseValue(ls, i0) ==
  LET i == SkipWs(ls, i0) IN
  IF i > Len(ls) THEN ParseFail
  ELSE IF ls[i] = "{" THEN
    LET j == SkipWs(ls, i + 1) IN
    IF j <= Len(ls) /\ ls[j] = "}" THEN ParseOk(EmptyObj, j + 1)
    ELSE ParseMembers(ls, j, EmptyObj)
  ELSE IF ls[i] = "[" THEN
    LET j == SkipWs(ls, i + 1) IN
    IF j <= Len(ls) /\ ls[j] = "]" THEN ParseOk(EmptyArr, j + 1)
    ELSE ParseElements(ls, j, <<>>)
  ELSE IF ls[i] = DQ THEN
    LET q == CloseQuote(ls, i + 1) IN
    IF q = 0 THEN ParseFail ELSE ParseOk(Str(SubSeq(ls, i + 1, q - 1)), q + 1)
  ELSE IF ls[i] \in NumWords THEN ParseOk(Num(ls[i]), i + 1)
  ELSE IF ls[i] \in {"true", "false"} THEN ParseOk(Bool(ls[i] = "true"), i + 1)
  ELSE IF ls[i] = "null" THEN ParseOk(Null, i + 1)
  ELSE ParseFail

\* the items after "[", up to and including "]"
ParseElements(ls, i, acc) ==
  LET r == ParseValue(ls, i) IN
  IF ~r.ok THEN ParseFail
  ELSE LET j == SkipWs(ls, r.nx) IN
       IF j > Len(ls) THEN ParseFail
       ELSE IF ls[j] = "," THEN ParseElements(ls, j + 1, Append(acc, r.v))
       ELSE IF ls[j] = "]" THEN ParseOk(Arr(Append(acc, r.v)), j + 1)
       ELSE ParseFail

\* the members after "{", up to and including "}"; a repeated key keeps its
\* first position and takes the last value
ParseMembers(ls, i0, acc) ==
  LET i == SkipWs(ls, i0) IN
  IF i > Len(ls) \/ ls[i] # DQ THEN ParseFail
  ELSE LET q == CloseQuote(ls, i + 1) IN
       IF q = 0 THEN ParseFail
       ELSE LET c == SkipWs(ls, q + 1) IN
            IF c > Len(ls) \/ ls[c] # ":" THEN ParseFail
            ELSE LET r == ParseValue(ls, c + 1) IN
                 IF ~r.ok THEN ParseFail
                 ELSE LET j == SkipWs(ls, r.nx)
                          acc2 == SetKey(acc, SubSeq(ls, i + 1, q - 1), r.v)
                      IN IF j > Len(ls) THEN ParseFail
                         ELSE IF ls[j] = "," THEN ParseMembers(ls, j + 1, acc2)
                         ELSE IF ls[j] = "}" THEN ParseOk(acc2, j + 1)
                         ELSE ParseFail

\* JSON.parse(text): [ok, v]; ~ok stands for the SyntaxError it throws
JSONparse(ls) ==
  LET r == ParseValue(ls, 1) IN
  IF r.ok /\ SkipWs(ls, r.nx) > Len(ls) THEN [ok |-> TRUE, v |-> r.v]
  ELSE [ok |-> FALSE, v |-> Undef]

\* JSON.stringify(v), as the callers and the tests build request texts
RECURSIVE Stringify(_), StringifyItems(_, _), StringifyMembers(_, _)

Stringify(v) ==
  CASE v.t = "obj" -> <<"{">> \o StringifyMembers(v, 1) \o <<"}">>
    [] v.t = "arr" -> <<"[">> \o StringifyItems(v, 1) \o <<"]">>
    [] v.t = "str" -> <<DQ>> \o v.s \o <<DQ>>
    [] v.t = "null" -> <<"null">>
    [] OTHER -> v.s

StringifyItems(v, i) ==
  IF i > Len(v.kids) THEN <<>>
  ELSE (IF i > 1 THEN <<",">> ELSE <<>>) \o Stringify(v.kids[i]) \o StringifyItems(v, i + 1)

StringifyMembers(v, i) ==
  IF i > Len(v.kids) THEN <<>>
  ELSE (IF i > 1 THEN <<",">> ELSE <<>>) \o <<DQ>> \o v.keys[i] \o <<DQ, ":">>
       \o Stringify(v.kids[i]) \o StringifyMembers(v, i + 1)

-----------------------------------------------------------------------------
(* splitArgs *)

IsQuote(l) == l \in {SQ, DQ}

\* index of the first quote lexeme at or after i (0: none)
RECURSIVE NextQuote(_, _)
NextQuote(ls, i) ==
  IF i > Len(ls) THEN 0 ELSE IF IsQuote(ls[i]) THEN i ELSE NextQuote(ls, i + 1)

\* /ObjectId\(['"]([^'"]+)['"]\)/ matched at position i: the index of its ")" (0: no match)
ObjectIdAt(ls, i) ==
  IF i + 5 <= Len(ls) /\ ls[i] = "ObjectId" /\ ls[i + 1] = "(" /\ IsQuote(ls[i + 2])
     /\ ~IsQuote(ls[i + 3])
  THEN LET q == NextQuote(ls, i + 3) IN
       IF q # 0 /\ q + 1 <= Len(ls) /\ ls[q + 1] = ")" THEN q + 1 ELSE 0
  ELSE 0

\* currentArg.replace(/ObjectId\(['"]([^'"]+)['"]\)/g, '"$1"')
RECURSIVE ReplaceObjectId(_, _)
ReplaceObjectId(ls, i) ==
  IF i > Len(ls) THEN <<>>
  ELSE LET e == ObjectIdAt(ls, i) IN
       IF e # 0 THEN <<DQ>> \o SubSeq(ls, i + 3, e - 2) \o <<DQ>> \o ReplaceObjectId(ls, e + 1)
       ELSE <<ls[i]>> \o ReplaceObjectId(ls, i + 1)

\* currentArg.includes('ObjectId(')
IncludesObjectId(ls) == \E i \in 1..(Len(ls) - 1) : ls[i] = "ObjectId" /\ ls[i + 1] = "("

\* the value pushed for one argument substring
ArgValue(currentArg) ==
  LET direct == JSONparse(Trim(currentArg)) IN
  IF direct.ok THEN direct.v
  ELSE IF IncludesObjectId(currentArg) THEN
    LET replaced == ReplaceObjectId(currentArg, 1)
        again == JSONparse(Trim(replaced))
    IN IF again.ok THEN again.v ELSE Str(Trim(replaced))
  ELSE Str(Trim(currentArg))

\* the scanning loop of splitArgs from position i on
RECURSIVE ScanArgs(_, _, _, _, _, _, _, _)
ScanArgs(ls, i, currentArg, braceCount, squareBracketCount, inQuotes, quoteChar, args) ==
  IF i > Len(ls) THEN
    IF Trim(currentArg) # <<>> THEN Append(args, ArgValue(currentArg)) ELSE args
  ELSE
    LET char == ls[i]
        isQ == IsQuote(char) /\ (i = 1 \/ ls[i - 1] # "\\")
        inQ2 == IF isQ THEN (IF ~inQuotes THEN TRUE
                             ELSE IF char = quoteChar THEN FALSE ELSE inQuotes)
                ELSE inQuotes
        qc2 == IF isQ /\ ~inQuotes THEN char ELSE quoteChar
        b2 == IF inQ2 THEN braceCount
              ELSE IF char = "{" THEN braceCount + 1
              ELSE IF char = "}" THEN braceCount - 1 ELSE braceCount
        s2 == IF inQ2 THEN squareBracketCount
              ELSE IF char = "[" THEN squareBracketCount + 1
              ELSE IF char = "]" THEN squareBracketCount - 1 ELSE squareBracketCount
    IN IF ~inQ2 /\ char = "," /\ b2 = 0 /\ s2 = 0
       THEN ScanArgs(ls, i + 1, <<>>, b2, s2, inQ2, qc2, Append(args, ArgValue(currentArg)))
       ELSE ScanArgs(ls, i + 1, Append(currentArg, char), b2, s2, inQ2, qc2, args)

\* splitArgs(argsStr): the sequence of parsed arguments
splitArgs(argsStr) ==
  IF Trim(argsStr) = <<>> THEN <<>>
  ELSE LET whole == JSONparse(<<"[">> \o argsStr \o <<"]">>) IN
       IF whole.ok THEN <<whole.v>>
       ELSE ScanArgs(argsStr, 1, <<>>, 0, 0, FALSE, "", <<>>)

-----------------------------------------------------------------------------
(* parseShellSyntax *)

\* index of the last ")" after position i (0: none)
LastParen(ls, i) ==
  IF \E r \in (i + 1)..Len(ls) : ls[r] = ")"
  THEN CHOOSE r \in (i + 1)..Len(ls) : ls[r] = ")" /\ \A r2 \in (r + 1)..Len(ls) : ls[r2] # ")"
  ELSE 0

NoShellMatch == [matched |-> FALSE, collectionName |-> <<>>, method |-> "", argsStr |-> <<>>]

\* /db\.getCollection\(['"]([^'"]+)['"]\)\.(\w+)\((.*)\)/ tried at position i
GetCollectionAt(ls, i) ==
  IF i + 5 <= Len(ls) /\ ls[i] = "db" /\ ls[i + 1] = "." /\ ls[i + 2] = "getCollection"
     /\ ls[i + 3] = "(" /\ IsQuote(ls[i + 4]) /\ ~IsQuote(ls[i + 5])
  THEN LET q == NextQuote(ls, i + 5) IN
       IF q # 0 /\ q + 4 <= Len(ls) /\ ls[q + 1] = ")" /\ ls[q + 2] = "."
          /\ IsWord(ls[q + 3]) /\ ls[q + 4] = "(" /\ LastParen(ls, q + 4) # 0
       THEN [matched |-> TRUE, collectionName |-> SubSeq(ls, i + 5, q - 1),
             method |-> ls[q + 3], argsStr |-> SubSeq(ls, q + 5, LastParen(ls, q + 4) - 1)]
       ELSE NoShellMatch
  ELSE NoShellMatch

\* /db\.(\w+)\.(\w+)\((.*)\)/ tried at position i
DirectCollectionAt(ls, i) ==
  IF i + 5 <= Len(ls) /\ ls[i] = "db" /\ ls[i + 1] = "." /\ IsWord(ls[i + 2])
     /\ ls[i + 3] = "." /\ IsWord(ls[i + 4]) /\ ls[i + 5] = "(" /\ LastParen(ls, i + 5) # 0
  THEN [matched |-> TRUE, collectionName |-> <<ls[i + 2]>>,
        method |-> ls[i + 4], argsStr |-> SubSeq(ls, i + 6, LastParen(ls, i + 5) - 1)]
  ELSE NoShellMatch

\* query.match(getCollectionPattern): the leftmost position where it matches
getCollectionMatchOf(ls) ==
  IF \E i \in 1..Len(ls) : GetCollectionAt(ls, i).matched
  THEN GetCollectionAt(ls, CHOOSE i \in 1..Len(ls) :
         GetCollectionAt(ls, i).matched /\ \A j \in 1..(i - 1) : ~GetCollectionAt(ls, j).matched)
  ELSE NoShellMatch

\* query.match(directCollectionPattern): the leftmost position where it matches
directCollectionMatchOf(ls) ==
  IF \E i \in 1..Len(ls) : DirectCollectionAt(ls, i).matched
  THEN DirectCollectionAt(ls, CHOOSE i \in 1..Len(ls) :
         DirectCollectionAt(ls, i).matched /\ \A j \in 1..(i - 1) : ~DirectCollectionAt(ls, j).matched)
  ELSE NoShellMatch

\* index of the first ")" at or after i (0: none)
RECURSIVE NextParen(_, _)
NextParen(ls, i) ==
  IF i > Len(ls) THEN 0 ELSE IF ls[i] = ")" THEN i ELSE NextParen(ls, i + 1)

\* /\.(\w+)\(([^)]*)\)/ tried at position k: the index of its ")" (0: no match)
CursorCallAt(ls, k) ==
  IF k + 2 <= Len(ls) /\ ls[k] = "." /\ IsWord(ls[k + 1]) /\ ls[k + 2] = "("
  THEN NextParen(ls, k + 3)
  ELSE 0

CursorMethodNames == {"sort", "limit", "skip", "project", "count"}

\* first position of `sub` in `ls` (0: none)
IndexOf(ls, sub) ==
  IF \E i \in 1..(Len(ls) - Len(sub) + 1) : SubSeq(ls, i, i + Len(sub) - 1) = sub
  THEN CHOOSE i \in 1..(Len(ls) - Len(sub) + 1) :
         /\ SubSeq(ls, i, i + Len(sub) - 1) = sub
         /\ \A j \in 1..(i - 1) : SubSeq(ls, j, j + Len(sub) - 1) # sub
  ELSE 0

\* ls.replace(sub, ''): the first occurrence removed
RemoveFirst(ls, sub) ==
  LET i == IndexOf(ls, sub) IN
  IF i = 0 THEN ls ELSE SubSeq(ls, 1, i - 1) \o SubSeq(ls, i + Len(sub), Len(ls))

\* the while loop over cursorMethodsPattern.exec(argsStr), from lastIndex k on:
\* [cursorMethods, cleanArgsStr]
RECURSIVE CursorScan(_, _, _, _)
CursorScan(argsStr, k, cursorMethods, cleanArgsStr) ==
  IF k > Len(argsStr) THEN [cursorMethods |-> cursorMethods, cleanArgsStr |-> cleanArgsStr]
  ELSE LET e == CursorCallAt(argsStr, k) IN
       IF e = 0 THEN CursorScan(argsStr, k + 1, cursorMethods, cleanArgsStr)
       ELSE IF argsStr[k + 1] \in CursorMethodNames
       THEN CursorScan(argsStr, e + 1,
                       Append(cursorMethods,
                              [method |-> argsStr[k + 1], args |-> SubSeq(argsStr, k + 3, e - 1)]),
                       RemoveFirst(cleanArgsStr, SubSeq(argsStr, k, e)))
       ELSE CursorScan(argsStr, e + 1, cursorMethods, cleanArgsStr)

\* parseInt(s, 10)
ParseInt(ls) ==
  LET t == TrimLeft(ls) IN
  IF t # <<>> /\ Head(t) \in NumWords THEN Num(Head(t)) ELSE Num("NaN")

\* JSON.parse(args), else JSON.parse(`{${args}}`), else nothing
LooseJson(ls) ==
  LET direct == JSONparse(ls)
      braced == JSONparse(<<"{">> \o ls \o <<"}">>)
  IN IF direct.ok THEN direct ELSE braced

\* the switch over one cursor method: [threw, opts]
ApplyCursorMethod(st, cm) ==
  IF st.threw THEN st
  ELSE IF cm.method \in {"sort", "project"} THEN
    LET parsed == LooseJson(cm.args)
        key == IF cm.method = "sort" THEN <<"sort">> ELSE <<"projection">>
    IN IF parsed.ok /\ IsObj(st.opts) THEN [st EXCEPT !.opts = SetKey(@, key, parsed.v)]
       ELSE st
  ELSE IF cm.method \in {"limit", "skip"} THEN
    IF IsObj(st.opts) THEN [st EXCEPT !.opts = SetKey(@, <<cm.method>>, ParseInt(cm.args))]
    ELSE IF IsArr(st.opts) THEN st
    ELSE [st EXCEPT !.threw = TRUE]
  ELSE st

RECURSIVE ApplyCursorMethods(_, _, _)
ApplyCursorMethods(st, cursorMethods, i) ==
  IF i > Len(cursorMethods) THEN st
  ELSE ApplyCursorMethods(ApplyCursorMethod(st, cursorMethods[i]), cursorMethods, i + 1)

\* parseShellSyntax(query): [matched, threw, collectionName, method, args];
\* ~matched is the null it returns, threw a TypeError it lets escape.
\* The options of find with the cursor methods folded in
FoldInto(m, st, args) ==
  [matched |-> TRUE, threw |-> st.threw, collectionName |-> m.collectionName,
   method |-> m.method, args |-> [args EXCEPT ![2] = st.opts]]

\* the arguments of the primary call
primaryArgs(cleanArgsStr) ==
  IF Trim(cleanArgsStr) # <<>> THEN splitArgs(cleanArgsStr) ELSE <<>>

\* args.push({}) until there are two
PadArgs(args) ==
  IF Len(args) = 0 THEN <<EmptyObj, EmptyObj>>
  ELSE IF Len(args) = 1 THEN Append(args, EmptyObj) ELSE args

FoldCursor(m, cursorMethods, args) ==
  IF m.method = "find" /\ Len(cursorMethods) > 0
  THEN FoldInto(m, ApplyCursorMethods([threw |-> FALSE, opts |-> PadArgs(args)[2]], cursorMethods, 1), PadArgs(args))
  ELSE [matched |-> TRUE, threw |-> FALSE, collectionName |-> m.collectionName,
        method |-> m.method, args |-> args]

AfterScan(m, scan) == FoldCursor(m, scan.cursorMethods, primaryArgs(scan.cleanArgsStr))

AfterMatch(m) ==
  IF ~m.matched
  THEN [matched |-> FALSE, threw |-> FALSE, collectionName |-> <<>>, method |-> "", args |-> <<>>]
  ELSE AfterScan(m, CursorScan(m.argsStr, 1, <<>>, m.argsStr))

parseShellSyntax(query) ==
  AfterMatch(IF getCollectionMatchOf(query).matched THEN getCollectionMatchOf(query)
             ELSE directCollectionMatchOf(query))

-----------------------------------------------------------------------------
(* Names the code compares against *)

kCollection == <<"collection">>

kPipeline == <<"pipeline">>

kMethod == <<"method">>

kArgs == <<"args">>

kOperation == <<"operation">>

kRunCommand == <<"runCommand">>

kFilter == <<"filter">>

kUpdate == <<"update">>

kReplacement == <<"replacement">>

kOptions == <<"options">>

\* the names of the aggregation stages, without the `$`
StageNames == {"match", "sort", "limit", "skip", "project", "group", "unwind",
               "lookup", "count", "facet", "addFields", "replaceRoot", "sample"}

\* `$${key}`
Dollar(key) == IF key = <<>> THEN <<"$">> ELSE <<"$" \o Head(key)>> \o Tail(key)

\* const pipelineStages = ['$match', '$sort', ...]
pipelineStages == {Dollar(<<n>>) : n \in StageNames}

\* Object.keys(v) as far as the code looks at them: own keys of an object
ObjectKeys(v) == IF IsObj(v) THEN v.keys ELSE <<>>

\* faulty variant of StageList: the keys are never given their `$`
StageList_plain(q, ks, addDollar) ==
  Arr([i \in 1..Len(ks) |-> Obj(<<ks[i]>>, <<Get(q, ks[i])>>)])

\* one single-key stage per selected key, in key order
StageList(q, ks, addDollar) ==
  Arr([i \in 1..Len(ks) |->
        Obj(<<IF addDollar THEN Dollar(ks[i]) ELSE ks[i]>>, <<Get(q, ks[i])>>)])

-----------------------------------------------------------------------------
(* normalizeQueryObject *)

IsDollarStageKey(key) == key \in pipelineStages

\* faulty variant of IsStageNameKey: every key but `collection` counts as a stage
IsStageNameKey_any(key) == key # kCollection

IsStageNameKey(key) == key # kCollection /\ Dollar(key) \in pipelineStages

normalizeQueryObject(queryObj) ==
  IF IsArr(queryObj) THEN queryObj
  ELSE
    LET ks == ObjectKeys(queryObj)
        hasPipelineStages == \E i \in 1..Len(ks) : IsDollarStageKey(ks[i])
        hasQuery == \E i \in 1..Len(ks) : IsStageNameKey(ks[i])
    IN IF hasPipelineStages /\ ~Truthy(Get(queryObj, kCollection))
                            /\ ~Truthy(Get(queryObj, kPipeline))
       THEN StageList(queryObj, SelectSeq(ks, IsDollarStageKey), FALSE)
       ELSE IF Truthy(Get(queryObj, kCollection)) /\ ~Truthy(Get(queryObj, kPipeline))
               /\ hasQuery
       THEN Obj(<<kCollection, kPipeline>>,
                <<Get(queryObj, kCollection),
                  StageList(queryObj, SelectSeq(ks, IsStageNameKey), TRUE)>>)
       ELSE queryObj

-----------------------------------------------------------------------------
(* The store: collection primitives and db.command *)

\* the message of the error a failing store operation rejects with
StoreMsg == "store error"

\* what the store resolves with (the driver mock of the tests)
StoreReply(op) ==
  CASE op \in {"find", "aggregate"} ->
         Arr(<<Obj(<<<<"_id">>>>, <<Str(<<"id1">>)>>), Obj(<<<<"_id">>>>, <<Str(<<"id2">>)>>)>>)
    [] op = "findOne" -> Obj(<<<<"_id">>>>, <<Str(<<"id1">>)>>)
    [] op = "countDocuments" -> Num("5")
    [] op = "distinct" -> Arr(<<Str(<<"value1">>), Str(<<"value2">>)>>)
    [] op = "command" -> Obj(<<<<"ok">>>>, <<Num("1")>>)
    [] OTHER -> Obj(<<<<"acknowledged">>>>, <<Bool(TRUE)>>)

\* this.db.collection(name).op(args...)
CollCall(op, name, args) == [op |-> op, coll |-> name, args |-> args, resolved |-> TRUE]

\* this.db.command(doc)
CmdCall(doc) == [op |-> "command", coll |-> Undef, args |-> <<doc>>, resolved |-> TRUE]

\* faulty variant of Invoke: a rejected store operation is issued a second time
Invoke_retry(route, call, storeOk) ==
  [route |-> route,
   calls |-> IF storeOk THEN <<[call EXCEPT !.resolved = TRUE]>>
             ELSE <<[call EXCEPT !.resolved = FALSE], [call EXCEPT !.resolved = FALSE]>>,
   ok |-> storeOk,
   value |-> IF storeOk THEN StoreReply(call.op) ELSE Undef,
   err |-> IF storeOk THEN <<>> ELSE <<StoreMsg>>]

\* await of one store operation: resolves with the store's reply or rejects
Invoke(route, call, storeOk) ==
  [route |-> route, calls |-> <<[call EXCEPT !.resolved = storeOk]>>, ok |-> storeOk,
   value |-> IF storeOk THEN StoreReply(call.op) ELSE Undef,
   err |-> IF storeOk THEN <<>> ELSE <<StoreMsg>>]

\* throw new Error(msg) before any store operation
Throw(route, msg) ==
  [route |-> route, calls |-> <<>>, ok |-> FALSE, value |-> Undef, err |-> msg]

\* catch (e) { throw new Error(msg) }
CatchReplace(out, msg) == IF out.ok THEN out ELSE [out EXCEPT !.err = msg]

\* faulty variant of CatchWrap: the caught message is dropped
CatchWrap_dropping(out, prefix) == IF out.ok THEN out ELSE [out EXCEPT !.err = <<prefix>>]

\* catch (e) { throw new Error(`${prefix}${e.message}`) }
CatchWrap(out, prefix) == IF out.ok THEN out ELSE [out EXCEPT !.err = <<prefix>> \o @]

\* a handler of type Promise<void>: resolves with nothing
Void(out) == IF out.ok THEN [out EXCEPT !.value = Undef] ELSE out

InvalidQueryFormat ==
  <<"Invalid query format. Expected an array pipeline with collection name in params[0], {collection: string, pipeline: array}, MongoDB shell syntax, or a valid command document">>

InvalidCommandFormat ==
  <<"Invalid command format. Expected an object with command operations, {collection: string, operation: object}, MongoDB shell syntax, or a valid command document">>

CollectionRequired ==
  <<"Collection name is required as the first parameter when pipeline is an array">>

CollectionRequiredCmd ==
  <<"Collection name is required as the first parameter when using direct command object, or provide a valid MongoDB command document">>

DistinctRequiresField == <<"distinct requires a field parameter">>

-----------------------------------------------------------------------------
(* query(): the JSON route, after parseShellSyntax returned null *)

\* { [method]: collection, arg0: args[0], ... }
RECURSIVE AddArgs(_, _, _)
AddArgs(cmdObj, args, i) ==
  IF i >= Length(args) THEN cmdObj
  ELSE AddArgs(SetKey(cmdObj, <<"arg" \o ToString(i)>>, At(args, i)), args, i + 1)

\* faulty variant of queryMethod: distinct is issued without looking at args.length
queryMethod_lenient(parsedQuery, storeOk) ==
  LET coll == Get(parsedQuery, kCollection)
      method == Get(parsedQuery, kMethod)
      args == OrElse(Get(parsedQuery, kArgs), EmptyArr)
      a0(dflt) == OrElse(At(args, 0), dflt)
      a1 == OrElse(At(args, 1), EmptyObj)
  IN CASE method = Str(<<"find">>) ->
            Invoke("json:method", CollCall("find", coll, <<a0(EmptyObj), a1>>), storeOk)
       [] method = Str(<<"findOne">>) ->
            Invoke("json:method", CollCall("findOne", coll, <<a0(EmptyObj), a1>>), storeOk)
       [] method = Str(<<"aggregate">>) ->
            Invoke("json:method", CollCall("aggregate", coll, <<a0(EmptyArr)>>), storeOk)
       [] method \in {Str(<<"count">>), Str(<<"countDocuments">>)} ->
            Invoke("json:method", CollCall("countDocuments", coll, <<a0(EmptyObj)>>), storeOk)
       [] method = Str(<<"distinct">>) ->
            Invoke("json:method", CollCall("distinct", coll, <<At(args, 0), a1>>), storeOk)
       [] OTHER ->
            Invoke("json:methodCommand",
                   CmdCall(AddArgs(Obj(<<method.s>>, <<coll>>), args, 0)), storeOk)

\* the {collection, method, args} form of query()
queryMethod(parsedQuery, storeOk) ==
  LET coll == Get(parsedQuery, kCollection)
      method == Get(parsedQuery, kMethod)
      args == OrElse(Get(parsedQuery, kArgs), EmptyArr)
      a0(dflt) == OrElse(At(args, 0), dflt)
      a1 == OrElse(At(args, 1), EmptyObj)
  IN CASE method = Str(<<"find">>) ->
            Invoke("json:method", CollCall("find", coll, <<a0(EmptyObj), a1>>), storeOk)
       [] method = Str(<<"findOne">>) ->
            Invoke("json:method", CollCall("findOne", coll, <<a0(EmptyObj), a1>>), storeOk)
       [] method = Str(<<"aggregate">>) ->
            Invoke("json:method", CollCall("aggregate", coll, <<a0(EmptyArr)>>), storeOk)
       [] method \in {Str(<<"count">>), Str(<<"countDocuments">>)} ->
            Invoke("json:method", CollCall("countDocuments", coll, <<a0(EmptyObj)>>), storeOk)
       [] method = Str(<<"distinct">>) ->
            IF Length(args) < 1 THEN Throw("json:method", DistinctRequiresField)
            ELSE Invoke("json:method", CollCall("distinct", coll, <<At(args, 0), a1>>), storeOk)
       [] OTHER ->
            Invoke("json:methodCommand",
                   CmdCall(AddArgs(Obj(<<method.s>>, <<coll>>), args, 0)), storeOk)

\* faulty variant of FlatFilter: `collection` stays in the filter
FlatFilter_whole(parsedQuery) == parsedQuery

\* every key of the mapping except `collection`
FlatFilter(parsedQuery) ==
  LET ks == SelectSeq(parsedQuery.keys, LAMBDA k : k # kCollection)
  IN Obj(ks, [i \in 1..Len(ks) |-> Get(parsedQuery, ks[i])])

\* if (parsedQuery.runCommand) return await this.db.command(parsedQuery.runCommand)
queryRunCommand(parsedQuery, storeOk) ==
  Invoke("json:runCommand", CmdCall(Get(parsedQuery, kRunCommand)), storeOk)

\* faulty variant of queryPipelineArray: the first element is dropped even when
\* the collection comes from params[0]
queryPipelineArray_sliced(normalizedQuery, ps, storeOk) ==
  IF Len(ps) = 0 THEN
    IF Truthy(At(normalizedQuery, 0)) /\ Truthy(Get(At(normalizedQuery, 0), kCollection))
    THEN Invoke("json:pipelineArray",
                CollCall("aggregate", Get(At(normalizedQuery, 0), kCollection),
                         <<Arr(Tail(normalizedQuery.kids))>>), storeOk)
    ELSE Throw("json:pipelineArray", CollectionRequired)
  ELSE Invoke("json:pipelineArray",
              CollCall("aggregate", ps[1],
                       <<Arr(SubSeq(normalizedQuery.kids, 2, Len(normalizedQuery.kids)))>>),
              storeOk)

\* faulty variant of queryPipelineArray: without params the collection is read
\* off the first element with no check that there is one
queryPipelineArray_unchecked(normalizedQuery, ps, storeOk) ==
  IF Len(ps) = 0
  THEN Invoke("json:pipelineArray",
              CollCall("aggregate", Get(At(normalizedQuery, 0), kCollection),
                       <<Arr(SubSeq(normalizedQuery.kids, 2, Len(normalizedQuery.kids)))>>),
              storeOk)
  ELSE Invoke("json:pipelineArray",
              CollCall("aggregate", ps[1], <<normalizedQuery>>), storeOk)

\* the pipeline array form: the collection is params[0] or the first element's
queryPipelineArray(normalizedQuery, ps, storeOk) ==
  IF Len(ps) = 0 THEN
    IF Truthy(At(normalizedQuery, 0)) /\ Truthy(Get(At(normalizedQuery, 0), kCollection))
    THEN Invoke("json:pipelineArray",
                CollCall("aggregate", Get(At(normalizedQuery, 0), kCollection),
                         <<Arr(Tail(normalizedQuery.kids))>>), storeOk)
    ELSE Throw("json:pipelineArray", CollectionRequired)
  ELSE Invoke("json:pipelineArray",
              CollCall("aggregate", ps[1], <<normalizedQuery>>), storeOk)

\* the {collection, pipeline} form
queryPipeline(normalizedQuery, storeOk) ==
  Invoke("json:pipeline",
         CollCall("aggregate", Get(normalizedQuery, kCollection),
                  <<Get(normalizedQuery, kPipeline)>>), storeOk)

\* a mapping of no other form: a direct find when it names a collection, else
\* a raw command
queryObject(parsedQuery, storeOk) ==
  IF Truthy(Get(parsedQuery, kCollection)) /\ ~Truthy(Get(parsedQuery, kPipeline))
     /\ ~Truthy(Get(parsedQuery, kOperation)) /\ ~Truthy(Get(parsedQuery, kMethod))
  THEN Invoke("json:flatFilter",
              CollCall("find", Get(parsedQuery, kCollection), <<FlatFilter(parsedQuery)>>),
              storeOk)
  ELSE CatchReplace(Invoke("json:rawCommand", CmdCall(parsedQuery), storeOk),
                    InvalidQueryFormat)

\* the if-chain of the inner try of query(), given the parsed and normalized text
queryChain(parsedQuery, normalizedQuery, ps, storeOk) ==
  IF Truthy(Get(parsedQuery, kRunCommand)) THEN queryRunCommand(parsedQuery, storeOk)
  ELSE IF IsArr(normalizedQuery) THEN queryPipelineArray(normalizedQuery, ps, storeOk)
  ELSE IF Truthy(Get(normalizedQuery, kCollection)) /\ IsArr(Get(normalizedQuery, kPipeline))
  THEN queryPipeline(normalizedQuery, storeOk)
  ELSE IF Truthy(Get(parsedQuery, kCollection)) /\ Truthy(Get(parsedQuery, kMethod))
  THEN queryMethod(parsedQuery, storeOk)
  ELSE IF IsObj(parsedQuery) THEN queryObject(parsedQuery, storeOk)
  ELSE Throw("json:invalid", InvalidQueryFormat)

\* the body of the inner try of query(), given the parsed text; null has no
\* properties to read (TypeError)
queryDispatch(parsedQuery, ps, storeOk) ==
  IF parsedQuery.t = "null" THEN Throw("json:typeError", <<"TypeError">>)
  ELSE queryChain(parsedQuery, normalizeQueryObject(parsedQuery), ps, storeOk)

\* try { JSON.parse ... } catch (parseError) { throw `Invalid query format: ...` }
queryJson(query, ps, storeOk) ==
  LET pr == JSONparse(query) IN
  CatchWrap(IF pr.ok THEN queryDispatch(pr.v, ps, storeOk)
            ELSE Throw("json:syntaxError", <<"SyntaxError">>),
            "Invalid query format: ")

-----------------------------------------------------------------------------
(* execute(): the JSON route, after parseShellSyntax returned null *)

\* faulty variant of namedWrite: the replaceOne branch, copied from updateOne,
\* still reads the `update` field
namedWrite_copied(route, coll, doc, fallback, storeOk) ==
  LET sub(k) == Get(doc, <<k>>)
      three(k, second) ==
        <<Get(sub(k), kFilter), Get(sub(k), second), Get(sub(k), kOptions)>>
  IN IF Truthy(sub("insertOne")) THEN
       Invoke(route, CollCall("insertOne", coll, <<sub("insertOne")>>), storeOk)
     ELSE IF Truthy(sub("insertMany")) THEN
       Invoke(route, CollCall("insertMany", coll, <<sub("insertMany")>>), storeOk)
     ELSE IF Truthy(sub("updateOne")) THEN
       Invoke(route, CollCall("updateOne", coll, three("updateOne", kUpdate)), storeOk)
     ELSE IF Truthy(sub("updateMany")) THEN
       Invoke(route, CollCall("updateMany", coll, three("updateMany", kUpdate)), storeOk)
     ELSE IF Truthy(sub("deleteOne")) THEN
       Invoke(route, CollCall("deleteOne", coll, <<sub("deleteOne")>>), storeOk)
     ELSE IF Truthy(sub("deleteMany")) THEN
       Invoke(route, CollCall("deleteMany", coll, <<sub("deleteMany")>>), storeOk)
     ELSE IF Truthy(sub("replaceOne")) THEN
       Invoke(route, CollCall("replaceOne", coll, three("replaceOne", kUpdate)), storeOk)
     ELSE Invoke(route, CmdCall(fallback), storeOk)

\* the named write shapes of a document `doc`, applied to collection `coll`;
\* `fallback` is the generic command submitted when no named key is present
namedWrite(route, coll, doc, fallback, storeOk) ==
  LET sub(k) == Get(doc, <<k>>)
      three(k, second) ==
        <<Get(sub(k), kFilter), Get(sub(k), second), Get(sub(k), kOptions)>>
  IN IF Truthy(sub("insertOne")) THEN
       Invoke(route, CollCall("insertOne", coll, <<sub("insertOne")>>), storeOk)
     ELSE IF Truthy(sub("insertMany")) THEN
       Invoke(route, CollCall("insertMany", coll, <<sub("insertMany")>>), storeOk)
     ELSE IF Truthy(sub("updateOne")) THEN
       Invoke(route, CollCall("updateOne", coll, three("updateOne", kUpdate)), storeOk)
     ELSE IF Truthy(sub("updateMany")) THEN
       Invoke(route, CollCall("updateMany", coll, three("updateMany", kUpdate)), storeOk)
     ELSE IF Truthy(sub("deleteOne")) THEN
       Invoke(route, CollCall("deleteOne", coll, <<sub("deleteOne")>>), storeOk)
     ELSE IF Truthy(sub("deleteMany")) THEN
       Invoke(route, CollCall("deleteMany", coll, <<sub("deleteMany")>>), storeOk)
     ELSE IF Truthy(sub("replaceOne")) THEN
       Invoke(route, CollCall("replaceOne", coll, three("replaceOne", kReplacement)), storeOk)
     ELSE Invoke(route, CmdCall(fallback), storeOk)

\* args.length > 2 ? args[2] : undefined
ThirdArg(args) == IF Length(args) > 2 THEN At(args, 2) ELSE Undef

\* the {collection, method, args} form of execute()
executeMethod(parsedCommand, storeOk) ==
  LET coll == Get(parsedCommand, kCollection)
      method == Get(parsedCommand, kMethod)
      args == OrElse(Get(parsedCommand, kArgs), EmptyArr)
      one(op) == Invoke("json:method", CollCall(op, coll, <<At(args, 0)>>), storeOk)
      three(op) ==
        Invoke("json:method",
               CollCall(op, coll, <<At(args, 0), At(args, 1), ThirdArg(args)>>), storeOk)
  IN CASE method = Str(<<"insertOne">>) -> one("insertOne")
       [] method = Str(<<"insertMany">>) -> one("insertMany")
       [] method = Str(<<"updateOne">>) -> three("updateOne")
       [] method = Str(<<"updateMany">>) -> three("updateMany")
       [] method = Str(<<"deleteOne">>) -> one("deleteOne")
       [] method = Str(<<"deleteMany">>) -> one("deleteMany")
       [] method = Str(<<"replaceOne">>) -> three("replaceOne")
       [] OTHER ->
            Invoke("json:methodCommand",
                   CmdCall(AddArgs(Obj(<<method.s>>, <<coll>>), args, 0)), storeOk)

\* faulty variant of executeRunCommand: the whole mapping is submitted
executeRunCommand_whole(parsedCommand, storeOk) ==
  Invoke("json:runCommand", CmdCall(parsedCommand), storeOk)

\* if (parsedCommand.runCommand) await this.db.command(parsedCommand.runCommand)
executeRunCommand(parsedCommand, storeOk) ==
  Invoke("json:runCommand", CmdCall(Get(parsedCommand, kRunCommand)), storeOk)

\* the {collection, operation} form
executeOperation(parsedCommand, storeOk) ==
  namedWrite("json:operation", Get(parsedCommand, kCollection),
             Get(parsedCommand, kOperation), Get(parsedCommand, kOperation), storeOk)

\* faulty variant of executeObject: params[0] is not written into the generic
\* command
executeObject_bare(parsedCommand, ps, storeOk) ==
  IF Len(ps) = 0
  THEN CatchReplace(Invoke("json:rawCommand", CmdCall(parsedCommand), storeOk),
                    CollectionRequiredCmd)
  ELSE namedWrite("json:legacy", ps[1], parsedCommand, parsedCommand, storeOk)

\* faulty variant of executeObject: without params nothing is submitted
executeObject_strict(parsedCommand, ps, storeOk) ==
  IF Len(ps) = 0
  THEN Throw("json:rawCommand", CollectionRequiredCmd)
  ELSE namedWrite("json:legacy", ps[1], parsedCommand,
                  SetKey(parsedCommand, kCollection, ps[1]), storeOk)

\* the old form: a command object, with the collection in params[0] if any
executeObject(parsedCommand, ps, storeOk) ==
  IF Len(ps) = 0
  THEN CatchReplace(Invoke("json:rawCommand", CmdCall(parsedCommand), storeOk),
                    CollectionRequiredCmd)
  ELSE namedWrite("json:legacy", ps[1], parsedCommand,
                  SetKey(parsedCommand, kCollection, ps[1]), storeOk)

\* the body of the inner try of execute(), given the parsed text
executeDispatch(parsedCommand, ps, storeOk) ==
  IF parsedCommand.t = "null" THEN Throw("json:typeError", <<"TypeError">>)
  ELSE IF Truthy(Get(parsedCommand, kRunCommand)) THEN executeRunCommand(parsedCommand, storeOk)
  ELSE IF Truthy(Get(parsedCommand, kCollection)) /\ Truthy(Get(parsedCommand, kOperation))
  THEN executeOperation(parsedCommand, storeOk)
  ELSE IF Truthy(Get(parsedCommand, kCollection)) /\ Truthy(Get(parsedCommand, kMethod))
  THEN executeMethod(parsedCommand, storeOk)
  ELSE IF IsObj(parsedCommand) THEN executeObject(parsedCommand, ps, storeOk)
  ELSE Throw("json:invalid", InvalidCommandFormat)

\* faulty variant of executeJson: a text that does not parse is submitted as it is
executeJson_lenient(query, ps, storeOk) ==
  CatchWrap(IF JSONparse(query).ok THEN executeDispatch(JSONparse(query).v, ps, storeOk)
            ELSE Invoke("json:rawCommand", CmdCall(Str(query)), storeOk),
            "Invalid command format: ")

\* try { JSON.parse ... } catch (parseError) { throw `Invalid command format: ...` }
executeJson(query, ps, storeOk) ==
  LET pr == JSONparse(query) IN
  CatchWrap(IF pr.ok THEN executeDispatch(pr.v, ps, storeOk)
            ELSE Throw("json:syntaxError", <<"SyntaxError">>),
            "Invalid command format: ")

-----------------------------------------------------------------------------
(* query() and execute(): the shell route and the whole handlers *)

UnsupportedShellMethod(method) == <<"Unsupported MongoDB shell method: ", method>>

\* args.length > i ? args[i] : dflt, for the args sequence of a shell invocation
ArgOr(args, i, dflt) == IF Len(args) > i THEN args[i + 1] ELSE dflt

\* faulty variant of ShellCommand: the arguments are left out
ShellCommand_bare(method, collectionName, args) ==
  Obj(<<<<method>>>>, <<Str(collectionName)>>)

\* cmdObj[`arg${i}`] = args[i] for every i
ShellCommand(method, collectionName, args) ==
  AddArgs(Obj(<<<<method>>>>, <<Str(collectionName)>>), Arr(args), 0)

\* the switch of query() over a parsed shell invocation
queryShell(sp, storeOk) ==
  LET coll == Str(sp.collectionName)
      args == sp.args
  IN CASE sp.method = "find" ->
            Invoke("shell:find",
                   CollCall("find", coll, <<ArgOr(args, 0, EmptyObj), ArgOr(args, 1, EmptyObj)>>),
                   storeOk)
       [] sp.method = "findOne" ->
            Invoke("shell:findOne",
                   CollCall("findOne", coll,
                            <<ArgOr(args, 0, EmptyObj), ArgOr(args, 1, EmptyObj)>>), storeOk)
       [] sp.method = "aggregate" ->
            Invoke("shell:aggregate",
                   CollCall("aggregate", coll, <<ArgOr(args, 0, EmptyArr)>>), storeOk)
       [] sp.method \in {"count", "countDocuments"} ->
            Invoke("shell:count",
                   CollCall("countDocuments", coll, <<ArgOr(args, 0, EmptyObj)>>), storeOk)
       [] sp.method = "distinct" ->
            IF Len(args) < 1 THEN Throw("shell:distinct", DistinctRequiresField)
            ELSE Invoke("shell:distinct",
                        CollCall("distinct", coll, <<args[1], ArgOr(args, 1, EmptyObj)>>),
                        storeOk)
       [] OTHER ->
            CatchReplace(Invoke("shell:command",
                                CmdCall(ShellCommand(sp.method, sp.collectionName, args)),
                                storeOk),
                         UnsupportedShellMethod(sp.method))

\* faulty variant of executeShell: the options argument of the three-argument
\* writes is never passed on
executeShell_noOptions(sp, storeOk) ==
  LET coll == Str(sp.collectionName)
      args == sp.args
      one(op, msg) ==
        IF Len(args) < 1 THEN Throw("shell:write", <<msg>>)
        ELSE Invoke("shell:write", CollCall(op, coll, <<args[1]>>), storeOk)
      three(op, msg) ==
        IF Len(args) < 2 THEN Throw("shell:write", <<msg>>)
        ELSE Invoke("shell:write", CollCall(op, coll, <<args[1], args[2], Undef>>), storeOk)
  IN CASE sp.method = "insertOne" -> one("insertOne", "insertOne requires a document parameter")
       [] sp.method = "insertMany" ->
            one("insertMany", "insertMany requires an array of documents")
       [] sp.method = "updateOne" ->
            three("updateOne", "updateOne requires filter and update parameters")
       [] sp.method = "updateMany" ->
            three("updateMany", "updateMany requires filter and update parameters")
       [] sp.method = "deleteOne" -> one("deleteOne", "deleteOne requires a filter parameter")
       [] sp.method = "deleteMany" -> one("deleteMany", "deleteMany requires a filter parameter")
       [] sp.method = "replaceOne" ->
            three("replaceOne", "replaceOne requires filter and replacement document parameters")
       [] OTHER ->
            CatchReplace(Invoke("shell:command",
                                CmdCall(ShellCommand(sp.method, sp.collectionName, args)),
                                storeOk),
                         UnsupportedShellMethod(sp.method))

\* the switch of execute() over a parsed shell invocation
executeShell(sp, storeOk) ==
  LET coll == Str(sp.collectionName)
      args == sp.args
      one(op, msg) ==
        IF Len(args) < 1 THEN Throw("shell:write", <<msg>>)
        ELSE Invoke("shell:write", CollCall(op, coll, <<args[1]>>), storeOk)
      three(op, msg) ==
        IF Len(args) < 2 THEN Throw("shell:write", <<msg>>)
        ELSE Invoke("shell:write",
                    CollCall(op, coll, <<args[1], args[2], ArgOr(args, 2, Undef)>>), storeOk)
  IN CASE sp.method = "insertOne" -> one("insertOne", "insertOne requires a document parameter")
       [] sp.method = "insertMany" ->
            one("insertMany", "insertMany requires an array of documents")
       [] sp.method = "updateOne" ->
            three("updateOne", "updateOne requires filter and update parameters")
       [] sp.method = "updateMany" ->
            three("updateMany", "updateMany requires filter and update parameters")
       [] sp.method = "deleteOne" -> one("deleteOne", "deleteOne requires a filter parameter")
       [] sp.method = "deleteMany" -> one("deleteMany", "deleteMany requires a filter parameter")
       [] sp.method = "replaceOne" ->
            three("replaceOne", "replaceOne requires filter and replacement document parameters")
       [] OTHER ->
            CatchReplace(Invoke("shell:command",
                                CmdCall(ShellCommand(sp.method, sp.collectionName, args)),
                                storeOk),
                         UnsupportedShellMethod(sp.method))

NotConnected == <<"Database not connected. Call connect() first.">>

\* ensureConnected(): passes iff both client and db are set
ensureConnected(c, d) == c /\ d

\* the outcome of a handler with the steps it went through
Traced(op, out, shell, steps) ==
  [op |-> op, route |-> out.route, calls |-> out.calls, ok |-> out.ok, value |-> out.value,
   err |-> out.err, shell |-> shell, steps |-> steps]

\* faulty variant of query: a shell dispatch that fails falls back to the JSON
\* route
query_fallback(q, ps, c, d, storeOk) ==
  IF ~ensureConnected(c, d)
  THEN Traced("query", Throw("notConnected", NotConnected), FALSE, <<>>)
  ELSE IF parseShellSyntax(q).matched
          /\ ~parseShellSyntax(q).threw /\ queryShell(parseShellSyntax(q), storeOk).ok
       THEN Traced("query", queryShell(parseShellSyntax(q), storeOk),
                   TRUE, <<"parseShellSyntax", "shellDispatch">>)
       ELSE Traced("query",
                   CatchWrap(queryJson(q, ps, storeOk), "Query execution failed: "),
                   FALSE,
                   IF parseShellSyntax(q).matched
                   THEN <<"parseShellSyntax", "shellDispatch", "JSON.parse">>
                   ELSE <<"parseShellSyntax", "JSON.parse">>)

\* query(query, params) on an instance with fields client = c, db = d; storeOk is
\* whether the store operation it awaits resolves
query(q, ps, c, d, storeOk) ==
  IF ~ensureConnected(c, d)
  THEN Traced("query", Throw("notConnected", NotConnected), FALSE, <<>>)
  ELSE LET shellParsed == parseShellSyntax(q) IN
       IF shellParsed.matched
       THEN Traced("query",
                   CatchWrap(IF shellParsed.threw THEN Throw("shell:typeError", <<"TypeError">>)
                             ELSE queryShell(shellParsed, storeOk),
                             "Query execution failed: "),
                   TRUE, <<"parseShellSyntax", "shellDispatch">>)
       ELSE Traced("query",
                   CatchWrap(queryJson(q, ps, storeOk), "Query execution failed: "),
                   FALSE, <<"parseShellSyntax", "JSON.parse">>)

\* execute(query, params), likewise
execute(q, ps, c, d, storeOk) ==
  IF ~ensureConnected(c, d)
  THEN Traced("execute", Throw("notConnected", NotConnected), FALSE, <<>>)
  ELSE LET shellParsed == parseShellSyntax(q) IN
       IF shellParsed.matched
       THEN Traced("execute",
                   Void(CatchWrap(IF shellParsed.threw
                                  THEN Throw("shell:typeError", <<"TypeError">>)
                                  ELSE executeShell(shellParsed, storeOk),
                                  "Command execution failed: ")),
                   TRUE, <<"parseShellSyntax", "shellDispatch">>)
       ELSE Traced("execute",
                   Void(CatchWrap(executeJson(q, ps, storeOk), "Command execution failed: ")),
                   FALSE, <<"parseShellSyntax", "JSON.parse">>)

-----------------------------------------------------------------------------
(* Requests *)

\* the largest number of top-level keys of a generated mapping
MaxKeys == 3

S1(w) == Str(<<w>>)

O1(k, v) == Obj(<<<<k>>>>, <<v>>)

AgeFilter == O1("age", O1("$gt", Num("21")))

MatchStage == O1("$match", AgeFilter)

SortStage == O1("$sort", O1("name", Num("1")))

NameDoc == O1("name", S1("John"))

\* a string value that reads like a shell call
ShellLike == Str(<<"db", ".", "a", ".", "b", "(", "1", ")">>)

\* the members a generated mapping is drawn from
Members ==
  << [k |-> kRunCommand, v |-> O1("ping", Num("1"))],
     [k |-> kCollection, v |-> S1("users")],
     [k |-> kPipeline, v |-> Arr(<<MatchStage, SortStage>>)],
     [k |-> kMethod, v |-> S1("find")],
     [k |-> kMethod, v |-> S1("insertOne")],
     [k |-> kArgs, v |-> Arr(<<AgeFilter>>)],
     [k |-> kOperation, v |-> O1("insertOne", NameDoc)],
     [k |-> <<"sort">>, v |-> O1("name", Num("1"))],
     [k |-> <<"match">>, v |-> AgeFilter],
     [k |-> <<"age">>, v |-> Num("21")],
     [k |-> <<"$match">>, v |-> AgeFilter],
     [k |-> <<"insertOne">>, v |-> NameDoc],
     [k |-> <<"ping">>, v |-> Num("1")],
     [k |-> <<"note">>, v |-> ShellLike] >>

\* the members with index in S, in ascending or descending order of index
RECURSIVE Pick(_, _, _)
Pick(S, i, up) ==
  IF i > Len(Members) THEN <<>>
  ELSE LET rest == Pick(S, i + 1, up)
           me == IF i \in S THEN <<Members[i]>> ELSE <<>>
       IN IF up THEN me \o rest ELSE rest \o me

MappingOf(ms) == Obj([i \in 1..Len(ms) |-> ms[i].k], [i \in 1..Len(ms) |-> ms[i].v])

DistinctKeys(S) == \A i, j \in S : Members[i].k = Members[j].k => i = j

Mappings ==
  {MappingOf(Pick(S, 1, up)) :
     S \in {T \in SUBSET (1..Len(Members)) : Cardinality(T) <= MaxKeys /\ DistinctKeys(T)},
     up \in BOOLEAN}

Arrays ==
  {EmptyArr, Arr(<<MatchStage, SortStage>>), Arr(<<SortStage, MatchStage>>),
   Arr(<<O1("collection", S1("events")), MatchStage, SortStage>>),
   Arr(<<O1("$match", O1("note", ShellLike))>>), Arr(<<Num("5")>>), Arr(<<Null>>)}

Scalars == {Null, Num("5"), Bool(TRUE)}

\* db.<coll>.<method>(<args>)<chain>
Direct(coll, method, args, chain) ==
  <<"db", ".", coll, ".", method, "(">> \o args \o <<")">> \o chain

\* db.getCollection('<coll>').<method>(<args>)
ViaGetCollection(coll, method, args) ==
  <<"db", ".", "getCollection", "(", SQ, coll, SQ, ")", ".", method, "(">> \o args \o <<")">>

ShellTexts ==
  {Direct("users", "find", Stringify(AgeFilter), <<>>),
   Direct("users", "find", <<"{", "age", ":", Blank, "21", "}">>, <<>>),
   Direct("users", "find", <<>>, <<>>),
   Direct("users", "find", Stringify(AgeFilter),
          <<".", "sort", "(">> \o Stringify(O1("name", Num("1"))) \o <<")", ".", "limit", "(", "5", ")">>),
   Direct("users", "findOne", Stringify(AgeFilter), <<>>),
   Direct("users", "aggregate", Stringify(Arr(<<MatchStage>>)), <<>>),
   Direct("users", "countDocuments", <<>>, <<>>),
   Direct("users", "distinct", <<>>, <<>>),
   Direct("users", "distinct", <<DQ, "name", DQ>>, <<>>),
   Direct("users", "stats", <<>>, <<>>),
   Direct("users", "insertOne", Stringify(NameDoc), <<>>),
   Direct("users", "insertOne", <<>>, <<>>),
   Direct("users", "updateOne",
          Stringify(NameDoc) \o <<",", Blank>> \o Stringify(O1("$set", AgeFilter)), <<>>),
   Direct("users", "updateOne",
          <<"{", "name", ":", SQ, "John", SQ, "}", ",", Blank>> \o Stringify(O1("$set", AgeFilter)),
          <<>>),
   Direct("users", "deleteMany", Stringify(AgeFilter), <<>>),
   ViaGetCollection("users", "find", Stringify(EmptyObj)),
   ViaGetCollection("users", "insertOne", Stringify(NameDoc)),
   Direct("users", "find", Stringify(EmptyObj), <<>>),
   Direct("users", "find", Stringify(AgeFilter), <<".", "limit", "(", "5", ")">>),
   Direct("users", "find", Stringify(AgeFilter),
          <<".", "sort", "(">> \o Stringify(O1("name", Num("1")))
            \o <<")", ".", "limit", "(", "5", ")", ".", "skip", "(", "2", ")">>),
   Direct("users", "stats", Stringify(AgeFilter), <<>>),
   Direct("users", "updateOne",
          <<"{", "name", ":", SQ, "John", SQ, "}", ",", Blank>> \o Stringify(O1("$set", AgeFilter))
            \o <<",", Blank>> \o Stringify(O1("upsert", Bool(TRUE))),
          <<>>),
   Direct("users", "replaceOne", <<"{", "name", ":", SQ, "John", SQ, "}">>, <<>>)}

\* {collection, method, args} requests
MethodRequests ==
  {Obj(<<kCollection, kMethod>>, <<S1("users"), S1("distinct")>>),
   Obj(<<kCollection, kMethod, kArgs>>, <<S1("users"), S1("distinct"), EmptyArr>>),
   Obj(<<kCollection, kMethod, kArgs>>, <<S1("users"), S1("distinct"), Arr(<<S1("name")>>)>>),
   Obj(<<kCollection, kMethod>>, <<S1("users"), S1("stats")>>),
   Obj(<<kMethod, kArgs, kCollection>>,
       <<S1("stats"), Arr(<<AgeFilter, NameDoc>>), S1("users")>>)}

\* the named write documents of the execute() tests, and two with two named keys
WriteDocs ==
  LET SetAge == O1("$set", AgeFilter)
      Upsert == O1("upsert", Bool(TRUE))
      Change(second, v, options) ==
        IF options = Undef THEN Obj(<<kFilter, second>>, <<NameDoc, v>>)
        ELSE Obj(<<kFilter, second, kOptions>>, <<NameDoc, v, options>>)
  IN {O1("updateOne", Change(kUpdate, SetAge, Upsert)),
      O1("updateMany", Change(kUpdate, SetAge, Undef)),
      O1("replaceOne", Change(kReplacement, NameDoc, Undef)),
      Obj(<<<<"deleteMany">>, <<"insertMany">>>>, <<AgeFilter, Arr(<<NameDoc>>)>>),
      Obj(<<<<"replaceOne">>, <<"deleteOne">>>>,
          <<Change(kReplacement, NameDoc, Upsert), NameDoc>>)}

\* each as a command of its own and as the operation of {collection, operation}
WriteRequests ==
  WriteDocs \cup {Obj(<<kCollection, kOperation>>, <<S1("users"), d>>) : d \in WriteDocs}
    \cup {Obj(<<kCollection, kOperation>>, <<S1("users"), O1("ping", Num("1"))>>),
          Obj(<<kCollection, <<"deleteMany">>>>, <<S1("users"), AgeFilter>>)}

Garbage == {<<"not", Blank, "a", Blank, "json">>, <<>>, <<"{", DQ, "a", DQ, ":">>}

Texts ==
  {Stringify(v) : v \in Mappings \cup Arrays \cup Scalars \cup MethodRequests \cup WriteRequests}
    \cup ShellTexts \cup Garbage

ParamLists == {<<>>, <<S1("orders")>>}

-----------------------------------------------------------------------------
(* The instance and its operations *)

NoCall ==
  [op |-> "none", route |-> "none", calls |-> <<>>, ok |-> TRUE, value |-> Undef,
   err |-> <<>>, shell |-> FALSE, steps |-> <<>>]

Init ==
  /\ client = FALSE
  /\ db = FALSE
  /\ text \in Texts
  /\ params \in ParamLists
  /\ last = NoCall
  /\ BackendUnused /\ ConfigUnused /\ ServerUnused

\* connect(): the client is created, then db is set once client.connect() resolves
Connect ==
  \E resolves \in BOOLEAN :
    /\ client' = TRUE
    /\ db' = (IF resolves THEN TRUE ELSE db)
    /\ UNCHANGED <<text, params, last, backendVars, configVars, serverVars>>

\* disconnect(): if (this.client) { await close(); client = null; db = null }
Disconnect ==
  \E resolves \in BOOLEAN :
    /\ client
    /\ client' = (IF resolves THEN FALSE ELSE client)
    /\ db' = (IF resolves THEN FALSE ELSE db)
    /\ UNCHANGED <<text, params, last, backendVars, configVars, serverVars>>

Query ==
  \E storeOk \in BOOLEAN :
    /\ last' = query(text, params, client, db, storeOk)
    /\ UNCHANGED <<client, db, text, params, backendVars, configVars, serverVars>>

Execute ==
  \E storeOk \in BOOLEAN :
    /\ last' = execute(text, params, client, db, storeOk)
    /\ UNCHANGED <<client, db, text, params, backendVars, configVars, serverVars>>

Next == Connect \/ Disconnect \/ Query \/ Execute

Spec == Init /\ [][Next]_vars

-----------------------------------------------------------------------------
(* Properties of query() and execute(): vocabulary *)

\* the last call was `op` and got past ensureConnected
Handled(op) == last.op = op /\ last.route # "notConnected"

HandledAny == Handled("query") \/ Handled("execute")

\* the request text read as JSON
Parsed == JSONparse(text)

Request == Parsed.v

\* the text is not taken by the shell route and is well-formed JSON
JsonText == ~parseShellSyntax(text).matched /\ Parsed.ok

\* exactly one store operation was issued, and it is op(args) on coll
OneCall(op, coll, args) ==
  /\ Len(last.calls) = 1
  /\ last.calls[1].op = op
  /\ last.calls[1].coll = coll
  /\ last.calls[1].args = args

\* the message of the failure contains msg
ErrContains(msg) == \E i \in 1..Len(last.err) : last.err[i] = msg

StepTaken(step) == \E i \in 1..Len(last.steps) : last.steps[i] = step

ShellRoutes ==
  {"shell:find", "shell:findOne", "shell:aggregate", "shell:count", "shell:distinct",
   "shell:command", "shell:write", "shell:typeError"}

\* the top-level keys of v that are stage names written without `$`, in key order
ShorthandKeys(v) == SelectSeq(v.keys, LAMBDA k : \E n \in StageNames : k = <<n>>)

\* one {"$<key>": payload} stage per such key
ShorthandPipeline(v) ==
  Arr([i \in 1..Len(ShorthandKeys(v)) |->
        Obj(<<<<"$" \o ShorthandKeys(v)[i][1]>>>>, <<Get(v, ShorthandKeys(v)[i])>>)])

-----------------------------------------------------------------------------
(* Properties of query() and execute(): C1 .. C4 *)

\* C1: a call of query() or execute() on a connected instance issues at most one
\* store operation, exactly one when the call succeeds; a store operation that
\* failed is the last one issued and the call fails (no retry, no fallback).
C1_AtMostOneStoreOperation ==
  HandledAny =>
    /\ Len(last.calls) <= 1
    /\ (last.ok => Len(last.calls) = 1)
    /\ \A i \in 1..Len(last.calls) :
         ~last.calls[i].resolved => (i = Len(last.calls) /\ ~last.ok)

\* a raw command whose store operation failed: the one call, nothing after it
C1_Witness ==
  /\ Handled("execute")
  /\ last.route = "json:rawCommand"
  /\ Len(last.calls) = 1
  /\ ~last.calls[1].resolved
  /\ ~last.ok

\* C2: the shell parser is tried first; a text that matches the shell grammar is
\* handled on the shell route only and JSON parsing is never attempted for it,
\* even when the shell dispatch fails; JSON parsing is attempted only for a text
\* the shell parser reported as not shell.
C2_ShellFirstNoFallback ==
  HandledAny =>
    /\ last.steps # <<>> /\ Head(last.steps) = "parseShellSyntax"
    /\ parseShellSyntax(text).matched =>
         (last.shell /\ last.route \in ShellRoutes /\ ~StepTaken("JSON.parse"))
    /\ StepTaken("JSON.parse") => (~parseShellSyntax(text).matched /\ ~last.shell)

\* a text that is well-formed JSON and matches the shell grammar, whose shell
\* dispatch failed
C2_Witness ==
  /\ Handled("query")
  /\ parseShellSyntax(text).matched
  /\ Parsed.ok
  /\ ~last.ok
  /\ last.steps = <<"parseShellSyntax", "shellDispatch">>

\* C3: query() of a JSON array with non-empty params aggregates on params[0],
\* and of a mapping {collection, pipeline: [...]} (no runCommand member)
\* aggregates on that collection; the pipeline handed to the store is the input's
\* stages, unchanged and in order, and the store's documents are the result.
C3_PipelineUnchanged ==
  (Handled("query") /\ JsonText) =>
    /\ (IsArr(Request) /\ Len(params) > 0) =>
         /\ OneCall("aggregate", params[1], <<Request>>)
         /\ last.ok => last.value = StoreReply("aggregate")
    /\ (IsObj(Request) /\ ~HasKey(Request, kRunCommand) /\ HasKey(Request, kCollection)
        /\ IsArr(Get(Request, kPipeline))) =>
         /\ OneCall("aggregate", Get(Request, kCollection), <<Get(Request, kPipeline)>>)
         /\ last.ok => last.value = StoreReply("aggregate")

\* a two-stage array with params[0], answered by the store
C3_Witness ==
  /\ Handled("query") /\ JsonText
  /\ IsArr(Request) /\ Len(Request.kids) = 2
  /\ Len(params) > 0
  /\ last.ok /\ last.route = "json:pipelineArray"

\* C4: query() of a JSON array without params: a first element with a
\* `collection` member gives an aggregate on that collection with that element
\* removed; otherwise (the empty array included) the call fails with
\* 'Collection name is required ...' and no store operation is issued.
C4_ArrayWithoutParams ==
  (Handled("query") /\ JsonText /\ IsArr(Request) /\ Len(params) = 0) =>
    IF Request.kids # <<>> /\ HasKey(Request.kids[1], kCollection)
    THEN OneCall("aggregate", Get(Request.kids[1], kCollection),
                 <<Arr(SubSeq(Request.kids, 2, Len(Request.kids)))>>)
    ELSE ~last.ok /\ last.calls = <<>> /\ ErrContains(CollectionRequired[1])

\* the empty array without params
C4_Witness ==
  /\ Handled("query") /\ JsonText
  /\ IsArr(Request) /\ Request.kids = <<>>
  /\ params = <<>>
  /\ ~last.ok /\ last.calls = <<>>

-----------------------------------------------------------------------------
(* Properties of query() and execute(): C5 .. C10 *)

\* query() of a JSON mapping with `collection`, without `pipeline`, and with at
\* least one key that is a stage name
ShorthandRequest ==
  /\ Handled("query") /\ JsonText
  /\ IsObj(Request)
  /\ HasKey(Request, kCollection)
  /\ ~HasKey(Request, kPipeline)
  /\ ShorthandKeys(Request) # <<>>

\* C5 as stated: every such mapping is aggregated on its collection with one
\* single-key `$`-prefixed stage per stage-name key, in key order, payloads
\* unchanged.
C5_AsStated ==
  ShorthandRequest =>
    OneCall("aggregate", Get(Request, kCollection), <<ShorthandPipeline(Request)>>)

\* C5, amended: the same for every such mapping that has no `runCommand`
\* member (a mapping with `runCommand` is submitted as that command).
C5_ShorthandStages ==
  (ShorthandRequest /\ ~HasKey(Request, kRunCommand)) =>
    OneCall("aggregate", Get(Request, kCollection), <<ShorthandPipeline(Request)>>)

\* two stage-name keys, sort written before match
C5_Witness ==
  /\ ShorthandRequest /\ ~HasKey(Request, kRunCommand)
  /\ ShorthandKeys(Request) = <<<<"sort">>, <<"match">>>>
  /\ last.ok

\* query() of a JSON mapping with `collection` and none of pipeline, method,
\* operation or a stage-name key
FlatFilterRequest ==
  /\ Handled("query") /\ JsonText
  /\ IsObj(Request)
  /\ HasKey(Request, kCollection)
  /\ ~HasKey(Request, kPipeline) /\ ~HasKey(Request, kMethod)
  /\ ~HasKey(Request, kOperation)
  /\ ShorthandKeys(Request) = <<>>

\* exactly one find on the collection, whose filter has every key of the input
\* except `collection`, in order, each with the input's value, and nothing else
FoundByFlatFilter ==
  /\ Len(last.calls) = 1
  /\ last.calls[1].op = "find"
  /\ last.calls[1].coll = Get(Request, kCollection)
  /\ Len(last.calls[1].args) = 1
  /\ IsObj(last.calls[1].args[1])
  /\ last.calls[1].args[1].keys = SelectSeq(Request.keys, LAMBDA k : k # kCollection)
  /\ \A i \in 1..Len(last.calls[1].args[1].keys) :
       last.calls[1].args[1].kids[i] = Get(Request, last.calls[1].args[1].keys[i])

\* C6 as stated: every such mapping is one find with that filter.
C6_AsStated == FlatFilterRequest => FoundByFlatFilter

\* C6, amended: the same for every such mapping that has no `runCommand`
\* member.
C6_FlatFilter == (FlatFilterRequest /\ ~HasKey(Request, kRunCommand)) => FoundByFlatFilter

\* a mapping with collection and two plain fields
C6_Witness ==
  /\ FlatFilterRequest /\ ~HasKey(Request, kRunCommand)
  /\ Len(Request.keys) = 3
  /\ HasKey(Request, <<"age">>)
  /\ last.ok

\* C7 (its particular case): a JSON mapping with `collection` and `method`, not
\* taken by the runCommand or the {collection, pipeline} rule, is dispatched as
\* an invocation of that method, also when it has a stage-named key (read path)
\* or an `operation` key (write path).
C7_MethodBeforeShorthandAndOperation ==
  (HandledAny /\ JsonText /\ IsObj(Request)
   /\ HasKey(Request, kCollection) /\ HasKey(Request, kMethod)
   /\ ~HasKey(Request, kRunCommand) /\ ~HasKey(Request, kPipeline)) =>
    /\ last.route \in {"json:method", "json:methodCommand"}
    /\ Len(last.calls) = 1
    /\ last.route = "json:method" =>
         /\ last.calls[1].op = Get(Request, kMethod).s[1]
         /\ last.calls[1].coll = Get(Request, kCollection)

\* C8: a JSON mapping with a `runCommand` member is submitted, by query() and by
\* execute(), as exactly one db.command of the runCommand sub-document, whatever
\* its other keys and params; no collection operation is issued.
C8_RunCommand ==
  (HandledAny /\ JsonText /\ IsObj(Request) /\ HasKey(Request, kRunCommand)) =>
    OneCall("command", Undef, <<Get(Request, kRunCommand)>>)

\* execute() with params of a mapping that also has collection and operation
C8_Witness ==
  /\ Handled("execute") /\ JsonText /\ IsObj(Request)
  /\ HasKey(Request, kRunCommand)
  /\ HasKey(Request, kCollection) /\ HasKey(Request, kOperation)
  /\ params # <<>>
  /\ OneCall("command", Undef, <<Get(Request, kRunCommand)>>)

NamedWrites ==
  {"insertOne", "insertMany", "updateOne", "updateMany", "deleteOne", "deleteMany",
   "replaceOne"}

\* a JSON mapping that matches none of the named shapes of the path of `op`
RawRequest(op) ==
  /\ Handled(op) /\ JsonText
  /\ IsObj(Request)
  /\ ~HasKey(Request, kRunCommand)
  /\ op = "query" =>
       /\ ~HasKey(Request, kCollection)
       /\ \A n \in StageNames : ~HasKey(Request, <<"$" \o n>>)
  /\ op = "execute" =>
       /\ ~(HasKey(Request, kCollection)
            /\ (HasKey(Request, kMethod) \/ HasKey(Request, kOperation)))
       /\ \A n \in NamedWrites : ~HasKey(Request, <<n>>)

\* C9 as stated: such a mapping is submitted verbatim as one db.command, by
\* query() and by execute(), with or without params; query() returns the
\* store's reply unmodified.
C9_AsStated ==
  /\ RawRequest("query") => (/\ OneCall("command", Undef, <<Request>>)
                             /\ last.ok => last.value = StoreReply("command"))
  /\ RawRequest("execute") => OneCall("command", Undef, <<Request>>)

\* the document d is the mapping v with its `collection` set to c: the keys of
\* v besides `collection` with v's values, `collection` with c, nothing else
WithCollection(d, v, c) ==
  /\ IsObj(d)
  /\ {d.keys[i] : i \in 1..Len(d.keys)} = {v.keys[i] : i \in 1..Len(v.keys)} \cup {kCollection}
  /\ Len(d.keys) = Cardinality({d.keys[i] : i \in 1..Len(d.keys)})
  /\ Get(d, kCollection) = c
  /\ \A i \in 1..Len(v.keys) : v.keys[i] # kCollection => Get(d, v.keys[i]) = v.kids[i]

\* C9, amended: such a mapping is submitted as one db.command; the document is
\* the input verbatim on the read path and on the write path without params;
\* on the write path with params it is the input with `collection` set to
\* params[0].
C9_RawCommand ==
  /\ RawRequest("query") => (/\ OneCall("command", Undef, <<Request>>)
                             /\ last.ok => last.value = StoreReply("command"))
  /\ (RawRequest("execute") /\ params = <<>>) => OneCall("command", Undef, <<Request>>)
  /\ (RawRequest("execute") /\ params # <<>>) =>
       /\ Len(last.calls) = 1
       /\ last.calls[1].op = "command"
       /\ Len(last.calls[1].args) = 1
       /\ WithCollection(last.calls[1].args[1], Request, params[1])

\* execute() with params of {ping: 1, ...}: the command carries params[0]
C9_Witness ==
  /\ RawRequest("execute") /\ params # <<>>
  /\ HasKey(Request, <<"ping">>)
  /\ ~HasKey(Request, kCollection)
  /\ Len(last.calls) = 1
  /\ Get(last.calls[1].args[1], kCollection) = params[1]

\* one aggregate whose pipeline has only single-key stages named `$<k>` for a
\* stage-name key k of the input, and no stage for any other key of the input
ShorthandOnly ==
  /\ Len(last.calls) = 1
  /\ last.calls[1].op = "aggregate"
  /\ last.calls[1].coll = Get(Request, kCollection)
  /\ Len(last.calls[1].args) = 1
  /\ IsArr(last.calls[1].args[1])
  /\ \A i \in 1..Len(last.calls[1].args[1].kids) :
       /\ IsObj(last.calls[1].args[1].kids[i])
       /\ Len(last.calls[1].args[1].kids[i].keys) = 1
       /\ \E j \in 1..Len(ShorthandKeys(Request)) :
            last.calls[1].args[1].kids[i].keys[1] = <<"$" \o ShorthandKeys(Request)[j][1]>>

\* C10 as stated: whenever a mapping with collection and no pipeline has a
\* stage-name key, query() takes the shorthand route, never the flat filter: the
\* store sees no find, and a pipeline of stage-named keys only.
C10_AsStated == ShorthandRequest => ShorthandOnly

\* C10, amended: the same for every such mapping that has no `runCommand`
\* member.
C10_ShorthandBeatsFlatFilter ==
  (ShorthandRequest /\ ~HasKey(Request, kRunCommand)) => ShorthandOnly

\* {collection, sort, age}: the field age reaches no store operation
C10_Witness ==
  /\ ShorthandRequest /\ ~HasKey(Request, kRunCommand)
  /\ HasKey(Request, <<"age">>)
  /\ ShorthandKeys(Request) = <<<<"sort">>>>
  /\ last.ok /\ Len(last.calls[1].args[1].kids) = 1

-----------------------------------------------------------------------------
(* Properties of the shell parser: C11 .. C15 *)

\* what parseShellSyntax makes of the request text
Invocation == parseShellSyntax(text)

\* the pattern match the invocation was built from
ShellMatch ==
  IF getCollectionMatchOf(text).matched THEN getCollectionMatchOf(text)
  ELSE directCollectionMatchOf(text)

\* the text is db.<x>.<method>(...) from its first character on
PlainDirect == DirectCollectionAt(text, 1).matched /\ ~getCollectionMatchOf(text).matched

\* the same call written db.getCollection('<x>').<method>(...)
AsGetCollection(t) ==
  <<"db", ".", "getCollection", "(", SQ, t[3], SQ, ")", ".", t[5], "(">> \o SubSeq(t, 7, Len(t))

FindAll == Direct("users", "find", <<"{", "}">>, <<>>)

\* C11: db.getCollection('x').method(args) and db.x.method(args) parse to the
\* same invocation, and for find({}) that invocation is collection x, method
\* find, args [{}, {}].
C11_GrammarsAgreeOnCanonicalFind ==
  (HandledAny /\ PlainDirect) =>
    /\ parseShellSyntax(AsGetCollection(text)) = Invocation
    /\ text = FindAll =>
         /\ Invocation.collectionName = <<"users">>
         /\ Invocation.method = "find"
         /\ Invocation.args = <<EmptyObj, EmptyObj>>
         /\ parseShellSyntax(AsGetCollection(text)).args = <<EmptyObj, EmptyObj>>

SortByName == <<".", "sort", "(">> \o Stringify(O1("name", Num("1"))) \o <<")">>

\* find(filter) followed by a chain of cursor modifiers, with the options the
\* chain stands for
ChainedFinds ==
  {[text |-> Direct("users", "find", Stringify(AgeFilter), <<".", "limit", "(", "5", ")">>),
    options |-> O1("limit", Num("5"))],
   [text |-> Direct("users", "find", Stringify(AgeFilter),
                    SortByName \o <<".", "limit", "(", "5", ")">>),
    options |-> Obj(<<<<"sort">>, <<"limit">>>>, <<O1("name", Num("1")), Num("5")>>)],
   [text |-> Direct("users", "find", Stringify(AgeFilter),
                    SortByName \o <<".", "limit", "(", "5", ")", ".", "skip", "(", "2", ")">>),
    options |-> Obj(<<<<"sort">>, <<"limit">>, <<"skip">>>>,
                    <<O1("name", Num("1")), Num("5"), Num("2")>>)]}

\* C12: for find(...) followed by a chain of cursor modifiers every chained
\* call, the last one included, is removed from the primary argument text, and
\* the parsed args are exactly [filter, options] with the options set from the
\* modifiers.
C12_ChainRemovedFromArguments ==
  \A c \in ChainedFinds :
    (HandledAny /\ text = c.text) =>
      /\ Invocation.matched /\ ~Invocation.threw
      /\ Invocation.args = <<AgeFilter, c.options>>

\* the argument text of the call read as a list of JSON literals
Literals == JSONparse(<<"[">> \o ShellMatch.argsStr \o <<"]">>)

ReadPrimitives == {"find", "findOne", "aggregate", "count", "countDocuments", "distinct"}

WritePrimitives ==
  {"insertOne", "insertMany", "updateOne", "updateMany", "deleteOne", "deleteMany",
   "replaceOne"}

\* the number of arguments the primitive cannot do without
Needed(method) ==
  IF method \in {"updateOne", "updateMany", "replaceOne"} THEN 2 ELSE 1

\* C13: for a shell call whose arguments are JSON literals, the i-th positional
\* argument passed to the store primitive is the i-th top-level literal of the
\* call (insertOne gets the document, find gets the filter).
C13_PositionalLiterals ==
  (HandledAny /\ last.shell /\ Literals.ok
   /\ ShellMatch.method \in (IF last.op = "query" THEN ReadPrimitives ELSE WritePrimitives)
   /\ Len(Literals.v.kids) >= Needed(ShellMatch.method)) =>
    /\ Len(last.calls) = 1
    /\ last.calls[1].coll = Str(ShellMatch.collectionName)
    /\ \A i \in 1..Len(Literals.v.kids) :
         i <= Len(last.calls[1].args) => last.calls[1].args[i] = Literals.v.kids[i]

\* the number of commas of ls from i on that are at brace depth zero, bracket
\* depth zero and outside quotes (quote = "" outside quotes)
RECURSIVE CommasAtTop(_, _, _, _, _)
CommasAtTop(ls, i, braces, brackets, quote) ==
  IF i > Len(ls) THEN 0
  ELSE IF ls[i] \in {SQ, DQ} /\ (i = 1 \/ ls[i - 1] # "\\")
  THEN CommasAtTop(ls, i + 1, braces, brackets,
                   IF quote = "" THEN ls[i] ELSE IF quote = ls[i] THEN "" ELSE quote)
  ELSE IF quote # "" THEN CommasAtTop(ls, i + 1, braces, brackets, quote)
  ELSE IF ls[i] = "{" THEN CommasAtTop(ls, i + 1, braces + 1, brackets, quote)
  ELSE IF ls[i] = "}" THEN CommasAtTop(ls, i + 1, braces - 1, brackets, quote)
  ELSE IF ls[i] = "[" THEN CommasAtTop(ls, i + 1, braces, brackets + 1, quote)
  ELSE IF ls[i] = "]" THEN CommasAtTop(ls, i + 1, braces, brackets - 1, quote)
  ELSE (IF ls[i] = "," /\ braces = 0 /\ brackets = 0 THEN 1 ELSE 0)
         + CommasAtTop(ls, i + 1, braces, brackets, quote)

\* the argument text parseShellSyntax hands to splitArgs
ArgumentText == CursorScan(ShellMatch.argsStr, 1, <<>>, ShellMatch.argsStr).cleanArgsStr

\* C14: splitArgs returns one value per top-level argument: as many as there
\* are top-level commas plus one, whether or not the text as a whole is valid
\* JSON; an empty or all-blank text gives the empty sequence.
C14_OneValuePerArgument ==
  (HandledAny /\ last.shell) =>
    Len(splitArgs(ArgumentText)) =
      (IF Trim(ArgumentText) = <<>> THEN 0 ELSE CommasAtTop(ArgumentText, 1, 0, 0, "") + 1)

\* C15: a text that does not begin with `db.` is reported as not shell syntax
\* and is handled by the JSON route.
C15_AnchoredAtStart ==
  (HandledAny /\ (text = <<>> \/ Head(text) # "db")) =>
    /\ ~Invocation.matched
    /\ ~last.shell
    /\ StepTaken("JSON.parse")

-----------------------------------------------------------------------------
(* Properties of the dispatch and of the errors: C16 .. C20 *)

\* a JSON mapping of the form {collection, method} or {collection, method, args}
MethodRequest ==
  /\ JsonText /\ IsObj(Request)
  /\ HasKey(Request, kCollection) /\ HasKey(Request, kMethod)
  /\ \A i \in 1..Len(Request.keys) : Request.keys[i] \in {kCollection, kMethod, kArgs}

\* the args of such a mapping, none when absent
RequestArgs == IF IsArr(Get(Request, kArgs)) THEN Get(Request, kArgs).kids ELSE <<>>

\* query() of distinct without arguments, in shell syntax or as a mapping
DistinctWithoutArguments ==
  /\ Handled("query")
  /\ \/ /\ last.shell
        /\ ShellMatch.method = "distinct"
        /\ Trim(ShellMatch.argsStr) = <<>>
     \/ /\ MethodRequest
        /\ Get(Request, kMethod) = Str(<<"distinct">>)
        /\ RequestArgs = <<>>

\* C16: query() of distinct with zero arguments, in shell syntax or as
\* {collection, method: "distinct"} with args absent or empty, fails with
\* 'distinct requires a field parameter' and issues no store operation.
C16_DistinctNeedsField ==
  DistinctWithoutArguments =>
    /\ ~last.ok
    /\ last.calls = <<>>
    /\ ErrContains("distinct requires a field parameter")

\* the mapping with an empty args array
C16_Witness ==
  /\ DistinctWithoutArguments /\ MethodRequest
  /\ HasKey(Request, kArgs)
  /\ ~last.ok /\ last.route = "json:method"

\* C17: a text that neither matches the shell grammar nor parses as JSON fails
\* with a message containing 'Invalid query format' (query) or 'Invalid command
\* format' (execute); no collection is resolved, no store operation issued.
C17_MalformedInput ==
  (HandledAny /\ ~Invocation.matched /\ ~Parsed.ok) =>
    /\ ~last.ok
    /\ last.calls = <<>>
    /\ ErrContains(IF last.op = "query" THEN "Invalid query format: "
                   ELSE "Invalid command format: ")

\* execute() of a text that is no JSON
C17_Witness ==
  /\ Handled("execute")
  /\ text = <<"not", Blank, "a", Blank, "json">>
  /\ ~last.ok /\ last.calls = <<>>
  /\ last.route = "json:syntaxError"

\* the store operation of the last call failed
StoreFailed == HandledAny /\ Len(last.calls) = 1 /\ ~last.calls[1].resolved

\* C18 as stated: on every route the error of a failed store operation carries
\* the store's message.
C18_AsStated == StoreFailed => ErrContains(StoreMsg)

\* C18, amended: the error carries the store's message, at its end, on every
\* route but two: a failed generic command of the shell fallback is reported as
\* 'Unsupported MongoDB shell method: <method>', and a failed JSON raw command
\* as the fixed 'Invalid query format. Expected ...' (query) or 'Collection name
\* is required ...' (execute without params) message, both without the store's
\* message.
C18_StoreMessage ==
  StoreFailed =>
    CASE last.route = "shell:command" ->
           /\ ~ErrContains(StoreMsg)
           /\ ErrContains("Unsupported MongoDB shell method: ")
           /\ ErrContains(ShellMatch.method)
      [] last.route = "json:rawCommand" ->
           /\ ~ErrContains(StoreMsg)
           /\ ErrContains(IF last.op = "query" THEN InvalidQueryFormat[1]
                          ELSE CollectionRequiredCmd[1])
      [] OTHER ->
           /\ ErrContains(StoreMsg)
           /\ last.err[Len(last.err)] = StoreMsg

\* a find of the shell route whose store operation failed
C18_Witness ==
  /\ StoreFailed
  /\ last.route = "shell:find"
  /\ last.err = <<"Query execution failed: ", StoreMsg>>

\* {<method>: <collection>, arg0: args[0], ..., arg(n-1): args[n-1]}
GenericCommand(method, coll, args) ==
  Obj(<<<<method>>>> \o [i \in 1..Len(args) |-> <<"arg" \o ToString(i - 1)>>],
      <<coll>> \o args)

\* the methods with a primitive of their own on the path of the last call
Primitives == IF last.op = "query" THEN ReadPrimitives ELSE WritePrimitives

\* C19: an invocation (shell syntax or {collection, method, args}) of a method
\* without a primitive on its path is submitted as exactly one generic command
\* {method: collection, arg0.., arg(n-1)}, alike on the read and write paths; when
\* that command fails on the shell route the call fails with the unsupported-
\* method error naming the method.
C19_GenericCommandFallback ==
  /\ (HandledAny /\ last.shell /\ ~Invocation.threw /\ Invocation.method \notin Primitives) =>
       /\ OneCall("command", Undef,
                  <<GenericCommand(Invocation.method, Str(Invocation.collectionName),
                                   Invocation.args)>>)
       /\ ~last.ok =>
            /\ ErrContains("Unsupported MongoDB shell method: ")
            /\ ErrContains(Invocation.method)
  /\ (HandledAny /\ MethodRequest /\ Get(Request, kMethod).s[1] \notin Primitives) =>
       OneCall("command", Undef,
               <<GenericCommand(Get(Request, kMethod).s[1], Get(Request, kCollection),
                                RequestArgs)>>)

\* execute() of db.users.stats(<one argument>) whose command failed
C19_Witness ==
  /\ Handled("execute") /\ last.shell
  /\ Invocation.method = "stats"
  /\ Len(Invocation.args) = 1
  /\ ~last.ok /\ Len(last.calls) = 1

\* the message of a write of the shell route that lacks a parameter
MissingParameter(method) ==
  CASE method = "updateOne" -> "updateOne requires filter and update parameters"
    [] method = "updateMany" -> "updateMany requires filter and update parameters"
    [] OTHER -> "replaceOne requires filter and replacement document parameters"

\* C20: execute() of a shell invocation of updateOne, updateMany or replaceOne:
\* with two arguments the primitive is called once with (args[0], args[1],
\* undefined), with three with (args[0], args[1], args[2]); with fewer than two
\* the call fails with a missing-parameter error and no store operation.
C20_UpdateArity ==
  (Handled("execute") /\ last.shell /\ ~Invocation.threw
   /\ Invocation.method \in {"updateOne", "updateMany", "replaceOne"}) =>
    /\ Len(Invocation.args) = 2 =>
         OneCall(Invocation.method, Str(Invocation.collectionName),
                 <<Invocation.args[1], Invocation.args[2], Undef>>)
    /\ Len(Invocation.args) = 3 =>
         OneCall(Invocation.method, Str(Invocation.collectionName),
                 <<Invocation.args[1], Invocation.args[2], Invocation.args[3]>>)
    /\ Len(Invocation.args) < 2 =>
         /\ ~last.ok
         /\ last.calls = <<>>
         /\ ErrContains(MissingParameter(Invocation.method))

\* updateOne with filter, update and options
C20_Witness ==
  /\ Handled("execute") /\ last.shell
  /\ Invocation.method = "updateOne"
  /\ Len(Invocation.args) = 3
  /\ last.ok /\ Len(last.calls[1].args) = 3 /\ last.calls[1].args[3] # Undef

-----------------------------------------------------------------------------
(* The named write shapes of execute() *)

\* the order in which execute() tests the named write keys
NamedWriteOrder ==
  <<"insertOne", "insertMany", "updateOne", "updateMany", "deleteOne", "deleteMany",
    "replaceOne">>

\* the position in NamedWriteOrder of the first key that doc carries, 0 if none
FirstNamed(doc) ==
  LET present == {i \in 1..Len(NamedWriteOrder) : HasKey(doc, <<NamedWriteOrder[i]>>)}
  IN IF present = {} THEN 0 ELSE CHOOSE i \in present : \A j \in present : i <= j

\* the request is {collection, operation}, and not a runCommand
OperationForm ==
  /\ JsonText /\ IsObj(Request)
  /\ ~Truthy(Get(Request, kRunCommand))
  /\ Truthy(Get(Request, kCollection)) /\ Truthy(Get(Request, kOperation))

\* the request is a command object with the collection in params[0]
LegacyForm ==
  /\ JsonText /\ IsObj(Request)
  /\ ~Truthy(Get(Request, kRunCommand))
  /\ ~(Truthy(Get(Request, kCollection))
       /\ (Truthy(Get(Request, kOperation)) \/ Truthy(Get(Request, kMethod))))
  /\ params # <<>>

\* the one store operation of a named write document doc on collection coll
CalledAsNamed(doc, coll) ==
  LET name == NamedWriteOrder[FirstNamed(doc)]
      sub == Get(doc, <<name>>)
  IN CASE name \in {"insertOne", "insertMany", "deleteOne", "deleteMany"} ->
            OneCall(name, coll, <<sub>>)
       [] name \in {"updateOne", "updateMany"} ->
            OneCall(name, coll, <<Get(sub, kFilter), Get(sub, kUpdate), Get(sub, kOptions)>>)
       [] OTHER ->
            OneCall(name, coll,
                    <<Get(sub, kFilter), Get(sub, kReplacement), Get(sub, kOptions)>>)

\* C21: execute() of a JSON mapping in named-write form: the collection is the
\* `collection` key of {collection, operation} or params[0] of the legacy form;
\* the first key present among insertOne, insertMany, updateOne, updateMany,
\* deleteOne, deleteMany, replaceOne selects the primitive, called once with the
\* sub-document or with its filter, update-or-replacement and options; with none
\* present one generic command is submitted: the operation sub-document in the
\* new form, the input document plus collection: params[0] in the legacy form.
C21_NamedWrites ==
  /\ (Handled("execute") /\ OperationForm) =>
       IF FirstNamed(Get(Request, kOperation)) # 0
       THEN CalledAsNamed(Get(Request, kOperation), Get(Request, kCollection))
       ELSE OneCall("command", Undef, <<Get(Request, kOperation)>>)
  /\ (Handled("execute") /\ LegacyForm) =>
       IF FirstNamed(Request) # 0
       THEN CalledAsNamed(Request, params[1])
       ELSE /\ Len(last.calls) = 1
            /\ last.calls[1].op = "command"
            /\ Len(last.calls[1].args) = 1
            /\ WithCollection(last.calls[1].args[1], Request, params[1])

\* a legacy request with replaceOne written before deleteOne: deleteOne is
\* called, on params[0]
C21_Witness ==
  /\ Handled("execute") /\ LegacyForm
  /\ Request.keys = <<<<"replaceOne">>, <<"deleteOne">>>>
  /\ OneCall("deleteOne", params[1], <<NameDoc>>)

-----------------------------------------------------------------------------
(* The stages handed to aggregate *)

\* a mapping with exactly one key, a recognized stage operator
IsStage(v) == IsObj(v) /\ Len(v.keys) = 1 /\ IsDollarStageKey(v.keys[1])

\* C22: every stage sequence that query() hands to aggregate on a JSON route
\* (raw array, {collection, pipeline}, `$`-keyed shorthand, stage-name shorthand)
\* consists only of single-key stage objects whose key is a recognized stage
\* operator.
C22_StagesWellFormed ==
  (Handled("query") /\ JsonText) =>
    \A i \in 1..Len(last.calls) :
      last.calls[i].op = "aggregate" =>
        /\ Len(last.calls[i].args) = 1
        /\ IsArr(last.calls[i].args[1])
        /\ \A k \in 1..Length(last.calls[i].args[1]) : IsStage(At(last.calls[i].args[1], k - 1))

-----------------------------------------------------------------------------
(* A named write without a collection *)

\* execute() of a JSON mapping with a named write key, no `collection` key and
\* empty params
WriteWithoutCollection ==
  /\ Handled("execute") /\ JsonText /\ IsObj(Request)
  /\ FirstNamed(Request) # 0
  /\ ~HasKey(Request, kCollection)
  /\ params = <<>>

\* C30 as stated: such a call fails with the 'Collection name is required' error
\* without invoking any store operation.
C30_AsStated ==
  WriteWithoutCollection =>
    /\ ~last.ok
    /\ last.calls = <<>>
    /\ ErrContains(CollectionRequiredCmd[1])

\* C30, amended: such a mapping, when it has no runCommand key, is submitted
\* once, verbatim, as a generic command and no write primitive is called; the
\* call succeeds if the command does, and fails with the 'Collection name is
\* required' error, in place of the store's message, if it does not.
C30_RawCommandFirst ==
  (WriteWithoutCollection /\ ~HasKey(Request, kRunCommand)) =>
    /\ OneCall("command", Undef, <<Request>>)
    /\ last.ok = last.calls[1].resolved
    /\ ~last.ok => (ErrContains(CollectionRequiredCmd[1]) /\ ~ErrContains(StoreMsg))

\* {insertOne: {name: 'John'}} without params, rejected by the store
C30_Witness ==
  /\ WriteWithoutCollection
  /\ Request = O1("insertOne", NameDoc)
  /\ Len(last.calls) = 1 /\ ~last.calls[1].resolved
  /\ ErrContains(CollectionRequiredCmd[1])

-----------------------------------------------------------------------------
(* The four backends: connection state and the calls made of the driver.   *)
(* An instance is [backend, handle, db]: handle is the pool of PostgresDatabase *)
(* and MssqlDatabase, db of SQLiteDatabase, client of MongoDBDatabase, each *)
(* as set or null; db is the field db of MongoDBDatabase.  A driver call is *)
(* [op, text, params].  SQL texts given by a caller are sequences of        *)
(* characters.                                                             *)

\* the largest number of tables getTables() reports to getSchema()
MaxTables == 2

\* connect(): the pool, database or client object is assigned before the
\* connection attempt is awaited; MongoDB assigns db after it
connectBackend(b, s, resolves) ==
  IF b = "mongodb" THEN [s EXCEPT !.handle = TRUE, !.db = IF resolves THEN TRUE ELSE @]
  ELSE [s EXCEPT !.handle = TRUE]

\* disconnect(): with a handle, the fields are cleared once end()/close() has
\* resolved; without one it returns at once
disconnectBackend(b, s, resolves) ==
  IF s.handle /\ resolves THEN [s EXCEPT !.handle = FALSE, !.db = FALSE] ELSE s

\* ensureConnected() passes
ensureConnectedOn(b, s) == IF b = "mongodb" THEN s.handle /\ s.db ELSE s.handle

\* query.replace(/\?/g, (match, index) => `@param${index}`): the second
\* argument of the callback is the offset of the match in the text
parameterize(q) ==
  [i \in 1..Len(q) |-> IF q[i] = "?" THEN "@param" \o ToString(i - 1) ELSE q[i]]

\* the driver calls of query() (run = FALSE) and execute() (run = TRUE) of the
\* three SQL backends
sqlCalls(b, q, ps, run) ==
  CASE b = "postgres" -> <<[op |-> "pool.query", text |-> q, params |-> ps]>>
    [] b = "sqlite" ->
         <<[op |-> IF run THEN "db.run" ELSE "db.all", text |-> q, params |-> ps]>>
    [] b = "mssql" ->
         [i \in 1..Len(ps) |->
            [op |-> "request.input", text |-> <<"param" \o ToString(i - 1)>>,
             params |-> <<ps[i]>>]]
           \o <<[op |-> "request.query", text |-> parameterize(q), params |-> <<>>]>>

\* the outcome of a method: refused by ensureConnected, or the driver calls
\* it made, the last of which resolves or rejects
backendOutcome(connected, cs, ok) ==
  IF ~connected THEN [ok |-> FALSE, err |-> NotConnected, calls |-> <<>>]
  ELSE [ok |-> ok, err |-> IF ok THEN <<>> ELSE <<"driver error">>, calls |-> cs]

\* the outcome of a call of MongoDBDatabase, with its store operations as
\* driver calls
mongoOutcome(out) ==
  [ok |-> out.ok, err |-> out.err,
   calls |-> [i \in 1..Len(out.calls) |->
                [op |-> out.calls[i].op, text |-> <<>>, params |-> out.calls[i].args]]]

\* query(query, params) of backend b
backendQuery(b, s, q, ps, ok) ==
  IF b # "mongodb" THEN backendOutcome(ensureConnectedOn(b, s), sqlCalls(b, q, ps, FALSE), ok)
  ELSE mongoOutcome(query(q, ps, s.handle, s.db, ok))

\* execute(query, params) of backend b
backendExecute(b, s, q, ps, ok) ==
  IF b # "mongodb" THEN backendOutcome(ensureConnectedOn(b, s), sqlCalls(b, q, ps, TRUE), ok)
  ELSE mongoOutcome(execute(q, ps, s.handle, s.db, ok))

\* getTables(): one listing, by the backend's own query() for the SQL backends
getTables(b, s, ok) ==
  backendOutcome(
    ensureConnectedOn(b, s),
    CASE b = "mongodb" -> <<[op |-> "listCollections", text |-> <<>>, params |-> <<>>]>>
      [] b = "postgres" ->
           sqlCalls(b, <<"SELECT table_name FROM information_schema.tables">>, <<>>, FALSE)
      [] b = "sqlite" -> sqlCalls(b, <<"SELECT name FROM sqlite_master">>, <<>>, FALSE)
      [] b = "mssql" ->
           sqlCalls(b, <<"SELECT TABLE_NAME FROM INFORMATION_SCHEMA.TABLES .. @param0">>,
                    <<Str(<<"database">>)>>, FALSE),
    ok)

\* getTableSchema(tableName): PostgreSQL asks twice (columns, primary key), the
\* others once; a rejected query ends the method
getTableSchema(b, s, tableName, ok) ==
  backendOutcome(
    ensureConnectedOn(b, s),
    CASE b = "mongodb" -> <<[op |-> "find", text |-> <<tableName>>, params |-> <<>>]>>
      [] b = "postgres" ->
           sqlCalls(b, <<"SELECT column_name .. FROM information_schema.columns .. $1">>,
                    <<Str(<<tableName>>)>>, FALSE)
             \o (IF ok
                 THEN sqlCalls(b, <<"SELECT a.attname FROM pg_index i .. $1::regclass">>,
                               <<Str(<<tableName>>)>>, FALSE)
                 ELSE <<>>)
      [] b = "sqlite" -> sqlCalls(b, <<"PRAGMA table_info(", tableName, ")">>, <<>>, FALSE)
      [] b = "mssql" ->
           sqlCalls(b, <<"SELECT c.COLUMN_NAME .. FROM INFORMATION_SCHEMA.COLUMNS c .. @param0">>,
                    <<Str(<<tableName>>)>>, FALSE),
    ok)

\* getSchema(): getTables(), then getTableSchema() of each of the n tables
getSchema(b, s, n, ok) ==
  LET each[i \in 0..n] ==
        IF i = 0 THEN <<>>
        ELSE each[i - 1] \o getTableSchema(b, s, "t" \o ToString(i), TRUE).calls
  IN backendOutcome(ensureConnectedOn(b, s),
                    getTables(b, s, ok).calls \o (IF ok THEN each[n] ELSE <<>>), ok)

\* the texts and parameter lists the backends are asked to run
SqlRequests(b) ==
  IF b = "mongodb"
  THEN {[q |-> Stringify(O1("ping", Num("1"))), ps |-> <<>>],
        [q |-> Direct("users", "insertOne", Stringify(NameDoc), <<>>), ps |-> <<>>]}
  ELSE {[q |-> q, ps |-> ps] :
          q \in {<<"a">>, <<"?">>, <<"a", "=", "?">>, <<"?", ",", "?">>,
                 <<"a", "=", "?", ",", "b", "=", "?">>},
          ps \in {<<>>, <<Num("1")>>, <<Num("1"), Num("2")>>}}

\* an instance of one of the four classes, after construction.  history is
\* "connected" since connect() resolved, "failed" when connect() of an instance
\* that was not connected rejected, "disconnected" since disconnect() resolved;
\* outcome is the last method called, with its arguments, the history it was
\* called in (was) and what came of it (out).
BackendInit ==
  /\ inst \in {[backend |-> b, handle |-> FALSE, db |-> FALSE] :
                 b \in {"postgres", "mongodb", "sqlite", "mssql"}}
  /\ history = "new"
  /\ outcome = [op |-> "none", q |-> <<>>, ps |-> <<>>, was |-> "new",
                out |-> [ok |-> TRUE, err |-> <<>>, calls |-> <<>>]]
  /\ MongoUnused /\ ConfigUnused /\ ServerUnused

BackendConnect ==
  \E resolves \in BOOLEAN :
    /\ inst' = connectBackend(inst.backend, inst, resolves)
    /\ history' = (IF resolves THEN "connected"
                   ELSE IF history = "connected" THEN history ELSE "failed")
    /\ UNCHANGED <<outcome, mongoVars, configVars, serverVars>>

BackendDisconnect ==
  \E resolves \in BOOLEAN :
    /\ inst' = disconnectBackend(inst.backend, inst, resolves)
    /\ history' = (IF ~inst.handle \/ resolves THEN "disconnected" ELSE history)
    /\ UNCHANGED <<outcome, mongoVars, configVars, serverVars>>

BackendQuery ==
  \E ok \in BOOLEAN, rq \in SqlRequests(inst.backend) :
    /\ outcome' = [op |-> "query", q |-> rq.q, ps |-> rq.ps, was |-> history,
                   out |-> backendQuery(inst.backend, inst, rq.q, rq.ps, ok)]
    /\ UNCHANGED <<inst, history, mongoVars, configVars, serverVars>>

BackendExecute ==
  \E ok \in BOOLEAN, rq \in SqlRequests(inst.backend) :
    /\ outcome' = [op |-> "execute", q |-> rq.q, ps |-> rq.ps, was |-> history,
                   out |-> backendExecute(inst.backend, inst, rq.q, rq.ps, ok)]
    /\ UNCHANGED <<inst, history, mongoVars, configVars, serverVars>>

BackendGetTables ==
  \E ok \in BOOLEAN :
    /\ outcome' = [op |-> "getTables", q |-> <<>>, ps |-> <<>>, was |-> history,
                   out |-> getTables(inst.backend, inst, ok)]
    /\ UNCHANGED <<inst, history, mongoVars, configVars, serverVars>>

BackendGetTableSchema ==
  \E ok \in BOOLEAN :
    /\ outcome' = [op |-> "getTableSchema", q |-> <<"t1">>, ps |-> <<>>, was |-> history,
                   out |-> getTableSchema(inst.backend, inst, "t1", ok)]
    /\ UNCHANGED <<inst, history, mongoVars, configVars, serverVars>>

BackendGetSchema ==
  \E ok \in BOOLEAN, n \in 0..MaxTables :
    /\ outcome' = [op |-> "getSchema", q |-> <<>>, ps |-> <<>>, was |-> history,
                   out |-> getSchema(inst.backend, inst, n, ok)]
    /\ UNCHANGED <<inst, history, mongoVars, configVars, serverVars>>

BackendSpec ==
  BackendInit
    /\ [][\/ BackendConnect \/ BackendDisconnect \/ BackendQuery \/ BackendExecute
          \/ BackendGetTables \/ BackendGetTableSchema \/ BackendGetSchema]_vars

-----------------------------------------------------------------------------
(* Properties of the backends *)

\* the last method was refused as not connected, before any driver call
Refused ==
  /\ ~outcome.out.ok
  /\ \E i \in 1..Len(outcome.out.err) : outcome.out.err[i] = NotConnected[1]
  /\ outcome.out.calls = <<>>

\* C23: on every backend and after every sequence of connect() and
\* disconnect(): while the instance is not connected (never connected, or
\* disconnected since), query, execute, getTables, getTableSchema and getSchema
\* each fail with 'Database not connected' and make no driver call; once a
\* connect() has succeeded they do not fail with that error.
C23_GuardedByConnection ==
  outcome.op \in {"query", "execute", "getTables", "getTableSchema", "getSchema"} =>
    IF outcome.was = "connected"
    THEN \A i \in 1..Len(outcome.out.err) : outcome.out.err[i] # NotConnected[1]
    ELSE Refused

\* C29: on every backend, after a connect() that failed the instance is still
\* not connected: query, execute, getTables and getTableSchema fail with
\* 'Database not connected' and make no driver call.
C29_FailedConnectLeavesNotConnected ==
  (outcome.was = "failed"
   /\ outcome.op \in {"query", "execute", "getTables", "getTableSchema"}) => Refused

\* the number of placeholders of q before position i
Rank(q, i) == Cardinality({j \in 1..(i - 1) : q[j] = "?"})

\* C26: MssqlDatabase.query and execute bind params[k] under the name param<k>
\* and send the text with its k-th `?` (from 0, in order of appearance)
\* rewritten to @param<k>; a text without `?` is sent as it is.
C26_PlaceholdersNumberedInOrder ==
  (inst.backend = "mssql" /\ outcome.op \in {"query", "execute"}
   /\ outcome.out.calls # <<>>) =>
    /\ Len(outcome.out.calls) = Len(outcome.ps) + 1
    /\ \A k \in 1..Len(outcome.ps) :
         outcome.out.calls[k]
           = [op |-> "request.input", text |-> <<"param" \o ToString(k - 1)>>,
              params |-> <<outcome.ps[k]>>]
    /\ outcome.out.calls[Len(outcome.out.calls)].op = "request.query"
    /\ outcome.out.calls[Len(outcome.out.calls)].text
         = [i \in 1..Len(outcome.q) |->
              IF outcome.q[i] = "?" THEN "@param" \o ToString(Rank(outcome.q, i))
              ELSE outcome.q[i]]

-----------------------------------------------------------------------------
(* Environment variables and the configuration a backend connects with.    *)
(* Values of numeric variables are strings of characters; names of fields   *)
(* and variables are single lexemes.                                        *)

\* parseInt(string, radix): a radix other than 0 outside 2..36 gives NaN;
\* otherwise the longest run of digits of that radix after leading blanks is
\* read, NaN when there is none
parseInt(cs, radix) ==
  LET t == TrimLeft(cs)
      digit == [c \in {"0", "1", "2", "3", "4", "5", "6", "7", "8", "9"} |->
                  CASE c = "0" -> 0 [] c = "1" -> 1 [] c = "2" -> 2 [] c = "3" -> 3
                    [] c = "4" -> 4 [] c = "5" -> 5 [] c = "6" -> 6 [] c = "7" -> 7
                    [] c = "8" -> 8 [] c = "9" -> 9]
      r == IF radix = 0 THEN 10 ELSE radix
      isDigit(c) == c \in DOMAIN digit /\ digit[c] < r
      run[i \in 0..Len(t)] ==
        IF i = 0 THEN 0
        ELSE IF \A j \in 1..i : isDigit(t[j]) THEN run[i - 1] * r + digit[t[i]]
        ELSE run[i - 1]
  IN IF radix # 0 /\ (radix < 2 \/ radix > 36) THEN Num("NaN")
     ELSE IF t = <<>> \/ ~isDigit(t[1]) THEN Num("NaN")
     ELSE Num(ToString(run[Len(t)]))

\* processConfig(type, config): a copy of config in which each variable of
\* the type that is set to a non-empty string replaces its field
processConfig(type, config, env) ==
  LET isSet(var) == Truthy(Get(env, <<var>>))
      string(c, var, field) ==
        IF isSet(var) THEN SetKey(c, <<field>>, Get(env, <<var>>)) ELSE c
      flag(c, var, field) ==
        IF isSet(var)
        THEN SetKey(c, <<field>>, Bool(Get(env, <<var>>) = Str(<<"true">>)))
        ELSE c
      int(c, var, field, radix) ==
        IF isSet(var)
        THEN SetKey(c, <<field>>, parseInt(Get(env, <<var>>).s, radix))
        ELSE c
      options(c) == IF Truthy(Get(c, <<"options">>)) THEN c
                    ELSE SetKey(c, <<"options">>, EmptyObj)
      option(c, var, x) ==
        SetKey(options(c), <<"options">>, SetKey(Get(options(c), <<"options">>), <<var>>, x))
  IN CASE type = "sqlite" ->
            flag(string(config, "MCP_SQLITE_FILENAME", "filename"),
                 "MCP_SQLITE_CREATE_IF_NOT_EXISTS", "createIfNotExists")
       [] type = "postgres" ->
            flag(string(string(string(int(string(config,
                 "MCP_POSTGRES_HOST", "host"),
                 "MCP_POSTGRES_PORT", "port", 5432),
                 "MCP_POSTGRES_DATABASE", "database"),
                 "MCP_POSTGRES_USER", "user"),
                 "MCP_POSTGRES_PASSWORD", "password"),
                 "MCP_POSTGRES_SSL", "ssl")
       [] type = "mssql" ->
            flag(flag(string(string(string(int(string(config,
                 "MCP_MSSQL_SERVER", "server"),
                 "MCP_MSSQL_PORT", "port", 1433),
                 "MCP_MSSQL_DATABASE", "database"),
                 "MCP_MSSQL_USER", "user"),
                 "MCP_MSSQL_PASSWORD", "password"),
                 "MCP_MSSQL_ENCRYPT", "encrypt"),
                 "MCP_MSSQL_TRUST_SERVER_CERTIFICATE", "trustServerCertificate")
       [] type = "mongodb" ->
            LET c2 == string(string(config, "MCP_MONGODB_URI", "uri"),
                             "MCP_MONGODB_DATABASE", "database")
                c3 == IF isSet("MCP_MONGODB_MAX_POOL_SIZE")
                      THEN option(c2, "maxPoolSize",
                                  parseInt(Get(env, <<"MCP_MONGODB_MAX_POOL_SIZE">>).s, 10))
                      ELSE c2
            IN IF isSet("MCP_MONGODB_USE_UNIFIED_TOPOLOGY")
               THEN option(c3, "useUnifiedTopology",
                           Bool(Get(env, <<"MCP_MONGODB_USE_UNIFIED_TOPOLOGY">>)
                                  = Str(<<"true">>)))
               ELSE c3
       [] OTHER -> config

\* what connect() of the backend hands to its driver: the Pool options
\* (postgres), the ConnectionPool options (mssql), the file name and open mode
\* (sqlite), the URI, client options and database name (mongodb)
connectOptions(type, config) ==
  LET f(k) == Get(config, <<k>>)
      orDefault(v, d) == IF v.t \in {"undef", "null"} THEN d ELSE v
      o(ks, vs) == Obj([i \in 1..Len(ks) |-> <<ks[i]>>], vs)
  IN CASE type = "postgres" ->
            o(<<"host", "port", "database", "user", "password", "ssl", "max">>,
              <<f("host"), OrElse(f("port"), Num("5432")), f("database"), f("user"),
                f("password"), f("ssl"), OrElse(f("poolSize"), Num("20"))>>)
       [] type = "mssql" ->
            LET poolConfig ==
                  o(<<"server", "port", "database", "user", "password", "options",
                      "connectionTimeout", "requestTimeout", "pool">>,
                    <<f("server"), f("port"), f("database"), f("user"), f("password"),
                      o(<<"encrypt", "trustServerCertificate">>,
                        <<orDefault(f("encrypt"), Bool(TRUE)),
                          orDefault(f("trustServerCertificate"), Bool(FALSE))>>),
                      f("connectionTimeout"), f("requestTimeout"), f("pool")>>)
            IN IF Truthy(f("trusted"))
               THEN SetKey(poolConfig, <<"authentication">>,
                           o(<<"type", "options">>,
                             <<Str(<<"ntlm">>),
                               o(<<"domain", "userName", "password">>,
                                 <<Str(<<>>), f("user"), f("password")>>)>>))
               ELSE poolConfig
       [] type = "sqlite" ->
            o(<<"filename", "mode">>,
              <<f("filename"),
                Str(IF Truthy(f("readOnly")) THEN <<"OPEN_READONLY">>
                    ELSE IF Truthy(f("createIfNotExists"))
                    THEN <<"OPEN_READWRITE", "|", "OPEN_CREATE">>
                    ELSE <<"OPEN_READWRITE">>)>>)
       [] type = "mongodb" ->
            o(<<"uri", "options", "database">>,
              <<f("uri"),
                o(<<"maxPoolSize", "useUnifiedTopology">>,
                  <<OrElse(Get(f("options"), <<"maxPoolSize">>), Num("10")),
                    Bool(Get(f("options"), <<"useUnifiedTopology">>) # Bool(FALSE))>>),
                f("database")>>)

\* a connect-database call of one type with a config, in an environment: the
\* config gives every field of the type or none; any of the type's variables
\* are set
ConfigInit ==
  /\ connection = Undef
  /\ \E type \in {"sqlite", "postgres", "mssql", "mongodb"} :
       LET table ==
             CASE type = "sqlite" ->
                    <<<<"MCP_SQLITE_FILENAME", "filename", Str(<<"env.db">>), Str(<<"arg.db">>)>>,
                      <<"MCP_SQLITE_CREATE_IF_NOT_EXISTS", "createIfNotExists",
                        Str(<<"true">>), Bool(FALSE)>>>>
               [] type = "postgres" ->
                    <<<<"MCP_POSTGRES_HOST", "host", Str(<<"envhost">>), Str(<<"arghost">>)>>,
                      <<"MCP_POSTGRES_PORT", "port", Str(<<"6", "5", "4", "3">>), Num("5433")>>,
                      <<"MCP_POSTGRES_DATABASE", "database", Str(<<"envdb">>), Str(<<"argdb">>)>>,
                      <<"MCP_POSTGRES_USER", "user", Str(<<"envuser">>), Str(<<"arguser">>)>>,
                      <<"MCP_POSTGRES_PASSWORD", "password", Str(<<"envpw">>), Str(<<"argpw">>)>>,
                      <<"MCP_POSTGRES_SSL", "ssl", Str(<<"false">>), Bool(TRUE)>>>>
               [] type = "mssql" ->
                    <<<<"MCP_MSSQL_SERVER", "server", Str(<<"envhost">>), Str(<<"arghost">>)>>,
                      <<"MCP_MSSQL_PORT", "port", Str(<<"1", "4", "3", "3">>), Num("1434")>>,
                      <<"MCP_MSSQL_DATABASE", "database", Str(<<"envdb">>), Str(<<"argdb">>)>>,
                      <<"MCP_MSSQL_USER", "user", Str(<<"envuser">>), Str(<<"arguser">>)>>,
                      <<"MCP_MSSQL_PASSWORD", "password", Str(<<"envpw">>), Str(<<"argpw">>)>>,
                      <<"MCP_MSSQL_ENCRYPT", "encrypt", Str(<<"true">>), Bool(FALSE)>>,
                      <<"MCP_MSSQL_TRUST_SERVER_CERTIFICATE", "trustServerCertificate",
                        Str(<<"true">>), Bool(FALSE)>>>>
               [] type = "mongodb" ->
                    <<<<"MCP_MONGODB_URI", "uri", Str(<<"mongodb://env">>), Str(<<"mongodb://arg">>)>>,
                      <<"MCP_MONGODB_DATABASE", "database", Str(<<"envdb">>), Str(<<"argdb">>)>>,
                      <<"MCP_MONGODB_MAX_POOL_SIZE", "maxPoolSize", Str(<<"5", "0">>), Num("25")>>,
                      <<"MCP_MONGODB_USE_UNIFIED_TOPOLOGY", "useUnifiedTopology",
                        Str(<<"false">>), Bool(TRUE)>>>>
           n == Len(table)
           top == IF type = "mongodb" THEN 2 ELSE n
           full == Obj([i \in 1..top |-> <<table[i][2]>>], [i \in 1..top |-> table[i][4]])
           passed == IF type = "mongodb"
                     THEN SetKey(full, <<"options">>,
                                 Obj(<<<<table[3][2]>>, <<table[4][2]>>>>,
                                     <<table[3][4], table[4][4]>>))
                     ELSE full
           envOf(set) ==
             LET ix == [k \in 1..Cardinality(set) |->
                          CHOOSE i \in set : Cardinality({j \in set : j < i}) = k - 1]
             IN Obj([k \in 1..Cardinality(set) |-> <<table[ix[k]][1]>>],
                    [k \in 1..Cardinality(set) |-> table[ix[k]][3]])
       IN setup \in {[type |-> type, config |-> c, env |-> envOf(set)] :
                       c \in {EmptyObj, passed}, set \in SUBSET (1..n)}
  /\ MongoUnused /\ BackendUnused /\ ServerUnused

\* connect-database up to the driver: processConfig, the factory, connect()
ConfigConnect ==
  /\ connection = Undef
  /\ connection' = connectOptions(setup.type,
                                  processConfig(setup.type, setup.config, setup.env))
  /\ UNCHANGED <<setup, mongoVars, backendVars, serverVars>>

ConfigSpec == ConfigInit /\ [][ConfigConnect]_vars

-----------------------------------------------------------------------------
(* Properties of the configuration *)

\* the supported variables of a type: variable, field, kind
Supported(type) ==
  CASE type = "sqlite" ->
         {<<"MCP_SQLITE_FILENAME", "filename", "string">>,
          <<"MCP_SQLITE_CREATE_IF_NOT_EXISTS", "createIfNotExists", "boolean">>}
    [] type = "postgres" ->
         {<<"MCP_POSTGRES_HOST", "host", "string">>,
          <<"MCP_POSTGRES_PORT", "port", "number">>,
          <<"MCP_POSTGRES_DATABASE", "database", "string">>,
          <<"MCP_POSTGRES_USER", "user", "string">>,
          <<"MCP_POSTGRES_PASSWORD", "password", "string">>,
          <<"MCP_POSTGRES_SSL", "ssl", "boolean">>}
    [] type = "mssql" ->
         {<<"MCP_MSSQL_SERVER", "server", "string">>,
          <<"MCP_MSSQL_PORT", "port", "number">>,
          <<"MCP_MSSQL_DATABASE", "database", "string">>,
          <<"MCP_MSSQL_USER", "user", "string">>,
          <<"MCP_MSSQL_PASSWORD", "password", "string">>,
          <<"MCP_MSSQL_ENCRYPT", "encrypt", "boolean">>,
          <<"MCP_MSSQL_TRUST_SERVER_CERTIFICATE", "trustServerCertificate", "boolean">>}
    [] type = "mongodb" ->
         {<<"MCP_MONGODB_URI", "uri", "string">>,
          <<"MCP_MONGODB_DATABASE", "database", "string">>,
          <<"MCP_MONGODB_MAX_POOL_SIZE", "maxPoolSize", "number">>,
          <<"MCP_MONGODB_USE_UNIFIED_TOPOLOGY", "useUnifiedTopology", "boolean">>}

\* the decimal number a string of digits writes
Decimal(cs) ==
  LET word[i \in 0..Len(cs)] == IF i = 0 THEN "" ELSE word[i - 1] \o cs[i]
  IN Num(word[Len(cs)])

\* the value the backend connected with for a field
ConnectedWith(field) ==
  IF field \in {"encrypt", "trustServerCertificate", "maxPoolSize", "useUnifiedTopology"}
  THEN Get(Get(connection, <<"options">>), <<field>>)
  ELSE IF field = "createIfNotExists"
  THEN Bool(Get(connection, <<"mode">>) = Str(<<"OPEN_READWRITE", "|", "OPEN_CREATE">>))
  ELSE Get(connection, <<field>>)

\* the value passed to connect-database for a field
Passed(field) ==
  IF field \in {"maxPoolSize", "useUnifiedTopology"}
  THEN Get(Get(setup.config, <<"options">>), <<field>>)
  ELSE Get(setup.config, <<field>>)

\* C25: for every supported environment variable that is set, the numeric
\* ports included, the backend connects with the variable's value (a string
\* as it is, a number as the number it writes, a boolean as whether it is
\* 'true') whatever the config passed to connect-database; a field that was
\* passed and whose variable is unset is connected with as passed.
C25_EnvironmentTakesPrecedence ==
  connection # Undef =>
    \A v \in Supported(setup.type) :
      LET value == Get(setup.env, <<v[1]>>) IN
      IF value # Undef
      THEN ConnectedWith(v[2])
             = CASE v[3] = "string" -> value
                 [] v[3] = "number" -> Decimal(value.s)
                 [] v[3] = "boolean" -> Bool(value = Str(<<"true">>))
      ELSE Passed(v[2]) # Undef => ConnectedWith(v[2]) = Passed(v[2])

-----------------------------------------------------------------------------
(* The server's registry of connections under concurrent tool calls.       *)
(* A tool handler runs to its await, and from the settling of the awaited   *)
(* promise to its return, without interruption; other handlers run between. *)
(* objects are the Database instances the server has made, each with the    *)
(* connectionId it was made for, its type, its state ("connecting",         *)
(* "connected", "failed", "closed") and whether disconnect() was called on  *)
(* it; databases maps a connectionId to the index of its instance, 0 when   *)
(* it has none; calls are the tool calls made so far, each waiting for a    *)
(* method of instance db or done; reply is the last result returned, with   *)
(* its number n and whether the connectionId was registered when its call   *)
(* was made (had).  The type of a call is one the tool's schema accepts;    *)
(* the query text and params are handed to the instance as they are and are *)
(* left out, as is the config (see processConfig above).                    *)

\* the number of tool calls made
MaxCalls == 3

\* getDatabase(connectionId)
getDatabase(map, connectionId) ==
  IF map[connectionId] = 0
  THEN [found |-> FALSE, db |-> 0,
        err |-> <<"Database connection with ID \"", connectionId, "\" not found">>]
  ELSE [found |-> TRUE, db |-> map[connectionId], err |-> <<>>]

ServerInit ==
  /\ databases = [id \in {"a", "b"} |-> 0]
  /\ calls = <<>>
  /\ objects = <<>>
  /\ reply = [n |-> 0, tool |-> "none", id |-> "", isError |-> FALSE, text |-> <<>>,
              had |-> FALSE]
  /\ MongoUnused /\ BackendUnused /\ ConfigUnused

\* connect-database, to `await db.connect()`, without the has() test
CallConnect_unchecked ==
  \E id \in DOMAIN databases, type \in {"sqlite", "postgres", "mssql", "mongodb"} :
    /\ Len(calls) < MaxCalls
    /\ objects' = Append(objects, [id |-> id, type |-> type, state |-> "connecting",
                                   disconnectCalled |-> FALSE])
    /\ calls' = Append(calls, [tool |-> "connect-database", id |-> id, pc |-> "connect",
                               db |-> Len(objects) + 1, had |-> databases[id] # 0])
    /\ UNCHANGED <<databases, reply, mongoVars, backendVars, configVars>>

\* connect-database, to `await db.connect()`
CallConnect ==
  \E id \in DOMAIN databases, type \in {"sqlite", "postgres", "mssql", "mongodb"} :
    /\ Len(calls) < MaxCalls
    /\ IF databases[id] # 0
       THEN /\ reply' = [n |-> reply.n + 1, tool |-> "connect-database", id |-> id,
                         isError |-> TRUE,
                         text |-> <<"Error connecting to database: ",
                                    "Connection with ID \"", id, "\" already exists">>,
                         had |-> TRUE]
            /\ calls' = Append(calls, [tool |-> "connect-database", id |-> id,
                                       pc |-> "done", db |-> 0, had |-> TRUE])
            /\ UNCHANGED <<databases, objects>>
       ELSE /\ objects' = Append(objects, [id |-> id, type |-> type, state |-> "connecting",
                                           disconnectCalled |-> FALSE])
            /\ calls' = Append(calls, [tool |-> "connect-database", id |-> id,
                                       pc |-> "connect", db |-> Len(objects) + 1,
                                       had |-> databases[id] # 0])
            /\ UNCHANGED <<databases, reply>>
    /\ UNCHANGED <<mongoVars, backendVars, configVars>>

\* connect-database, from the settling of db.connect()
ConnectSettled ==
  \E i \in DOMAIN calls, resolves \in BOOLEAN :
    /\ calls[i].pc = "connect"
    /\ objects' = [objects EXCEPT ![calls[i].db].state =
                                    IF resolves THEN "connected" ELSE "failed"]
    /\ databases' = IF resolves THEN [databases EXCEPT ![calls[i].id] = calls[i].db]
                    ELSE databases
    /\ reply' = [n |-> reply.n + 1, tool |-> "connect-database", id |-> calls[i].id,
                 isError |-> ~resolves,
                 text |-> IF resolves
                          THEN <<"Successfully connected to ", objects[calls[i].db].type,
                                 " database with ID \"", calls[i].id, "\"">>
                          ELSE <<"Error connecting to database: ", "driver error">>,
                 had |-> calls[i].had]
    /\ calls' = [calls EXCEPT ![i] = [@ EXCEPT !.pc = "done", !.db = 0]]
    /\ UNCHANGED <<mongoVars, backendVars, configVars>>

\* disconnect-database, to `await db.disconnect()`
CallDisconnect ==
  \E id \in DOMAIN databases :
    LET got == getDatabase(databases, id) IN
    /\ Len(calls) < MaxCalls
    /\ IF ~got.found
       THEN /\ reply' = [n |-> reply.n + 1, tool |-> "disconnect-database", id |-> id,
                         isError |-> TRUE,
                         text |-> <<"Error disconnecting from database: ">> \o got.err,
                         had |-> FALSE]
            /\ calls' = Append(calls, [tool |-> "disconnect-database", id |-> id,
                                       pc |-> "done", db |-> 0, had |-> FALSE])
            /\ UNCHANGED objects
       ELSE /\ objects' = [objects EXCEPT ![got.db].disconnectCalled = TRUE]
            /\ calls' = Append(calls, [tool |-> "disconnect-database", id |-> id,
                                       pc |-> "disconnect", db |-> got.db, had |-> TRUE])
            /\ UNCHANGED reply
    /\ UNCHANGED <<databases, mongoVars, backendVars, configVars>>

\* disconnect-database, from the settling of db.disconnect(); the entry goes
\* whether or not disconnect() resolved
DisconnectSettled_always ==
  \E i \in DOMAIN calls, resolves \in BOOLEAN :
    /\ calls[i].pc = "disconnect"
    /\ objects' = IF resolves THEN [objects EXCEPT ![calls[i].db].state = "closed"]
                  ELSE objects
    /\ databases' = [databases EXCEPT ![calls[i].id] = 0]
    /\ reply' = [n |-> reply.n + 1, tool |-> "disconnect-database", id |-> calls[i].id,
                 isError |-> ~resolves,
                 text |-> IF resolves
                          THEN <<"Successfully disconnected from database with ID \"",
                                 calls[i].id, "\"">>
                          ELSE <<"Error disconnecting from database: ", "driver error">>,
                 had |-> calls[i].had]
    /\ calls' = [calls EXCEPT ![i] = [@ EXCEPT !.pc = "done", !.db = 0]]
    /\ UNCHANGED <<mongoVars, backendVars, configVars>>

\* disconnect-database, from the settling of db.disconnect()
DisconnectSettled ==
  \E i \in DOMAIN calls, resolves \in BOOLEAN :
    /\ calls[i].pc = "disconnect"
    /\ objects' = IF resolves THEN [objects EXCEPT ![calls[i].db].state = "closed"]
                  ELSE objects
    /\ databases' = IF resolves THEN [databases EXCEPT ![calls[i].id] = 0] ELSE databases
    /\ reply' = [n |-> reply.n + 1, tool |-> "disconnect-database", id |-> calls[i].id,
                 isError |-> ~resolves,
                 text |-> IF resolves
                          THEN <<"Successfully disconnected from database with ID \"",
                                 calls[i].id, "\"">>
                          ELSE <<"Error disconnecting from database: ", "driver error">>,
                 had |-> calls[i].had]
    /\ calls' = [calls EXCEPT ![i] = [@ EXCEPT !.pc = "done", !.db = 0]]
    /\ UNCHANGED <<mongoVars, backendVars, configVars>>

\* execute-query, to `await db.query(query, params)`
CallQuery ==
  \E id \in DOMAIN databases :
    LET got == getDatabase(databases, id) IN
    /\ Len(calls) < MaxCalls
    /\ IF ~got.found
       THEN /\ reply' = [n |-> reply.n + 1, tool |-> "execute-query", id |-> id,
                         isError |-> TRUE,
                         text |-> <<"Error executing query: ">> \o got.err,
                         had |-> FALSE]
            /\ calls' = Append(calls, [tool |-> "execute-query", id |-> id,
                                       pc |-> "done", db |-> 0, had |-> FALSE])
       ELSE /\ calls' = Append(calls, [tool |-> "execute-query", id |-> id,
                                       pc |-> "query", db |-> got.db, had |-> TRUE])
            /\ UNCHANGED reply
    /\ UNCHANGED <<databases, objects, mongoVars, backendVars, configVars>>

\* execute-query, from the settling of db.query(): an instance that is not
\* connected rejects, a connected one resolves or rejects
QuerySettled ==
  \E i \in DOMAIN calls, resolves \in BOOLEAN :
    /\ calls[i].pc = "query"
    /\ resolves => objects[calls[i].db].state = "connected"
    /\ reply' = [n |-> reply.n + 1, tool |-> "execute-query", id |-> calls[i].id,
                 isError |-> ~resolves,
                 text |-> IF resolves THEN <<"JSON.stringify(results, null, 2)">>
                          ELSE <<"Error executing query: ", "driver error">>,
                 had |-> calls[i].had]
    /\ calls' = [calls EXCEPT ![i] = [@ EXCEPT !.pc = "done", !.db = 0]]
    /\ UNCHANGED <<databases, objects, mongoVars, backendVars, configVars>>

\* execute-update, to `await db.execute(query, params)`
CallUpdate ==
  \E id \in DOMAIN databases :
    LET got == getDatabase(databases, id) IN
    /\ Len(calls) < MaxCalls
    /\ IF ~got.found
       THEN /\ reply' = [n |-> reply.n + 1, tool |-> "execute-update", id |-> id,
                         isError |-> TRUE,
                         text |-> <<"Error executing update: ">> \o got.err,
                         had |-> FALSE]
            /\ calls' = Append(calls, [tool |-> "execute-update", id |-> id,
                                       pc |-> "done", db |-> 0, had |-> FALSE])
       ELSE /\ calls' = Append(calls, [tool |-> "execute-update", id |-> id,
                                       pc |-> "execute", db |-> got.db, had |-> TRUE])
            /\ UNCHANGED reply
    /\ UNCHANGED <<databases, objects, mongoVars, backendVars, configVars>>

\* execute-update, from the settling of db.execute()
UpdateSettled ==
  \E i \in DOMAIN calls, resolves \in BOOLEAN :
    /\ calls[i].pc = "execute"
    /\ resolves => objects[calls[i].db].state = "connected"
    /\ reply' = [n |-> reply.n + 1, tool |-> "execute-update", id |-> calls[i].id,
                 isError |-> ~resolves,
                 text |-> IF resolves THEN <<"Operation completed successfully">>
                          ELSE <<"Error executing update: ", "driver error">>,
                 had |-> calls[i].had]
    /\ calls' = [calls EXCEPT ![i] = [@ EXCEPT !.pc = "done", !.db = 0]]
    /\ UNCHANGED <<databases, objects, mongoVars, backendVars, configVars>>

ServerSpec ==
  ServerInit
    /\ [][\/ CallConnect \/ ConnectSettled \/ CallDisconnect \/ DisconnectSettled
          \/ CallQuery \/ QuerySettled \/ CallUpdate \/ UpdateSettled]_vars

-----------------------------------------------------------------------------
(* Properties of the registry *)

\* the text of the last reply has the fragment
ReplySays(fragment) == \E k \in 1..Len(reply.text) : reply.text[k] = fragment

\* this step returned a result
Replied == reply'.n # reply.n

\* this step began no call of a method of a Database
NoDatabaseCall ==
  /\ objects' = objects
  /\ \A i \in DOMAIN calls' : calls'[i].pc # "done" => (i \in DOMAIN calls /\ calls'[i] = calls[i])

\* C24: a connect-database call whose connectionId is registered when it is
\* made returns an error result saying 'already exists', makes and connects no
\* Database and leaves the registry as it is; an execute-query, execute-update
\* or disconnect-database call whose connectionId is not registered returns an
\* error result saying 'not found' and calls no method of a Database.
C24_ConnectionIdIsUnique ==
  [][Replied =>
       /\ (reply'.tool = "connect-database" /\ reply'.had) =>
            /\ reply'.isError
            /\ \E k \in 1..Len(reply'.text) : reply'.text[k] = "\" already exists"
            /\ NoDatabaseCall
            /\ databases' = databases
       /\ (reply'.tool \in {"execute-query", "execute-update", "disconnect-database"}
           /\ ~reply'.had) =>
            /\ reply'.isError
            /\ \E k \in 1..Len(reply'.text) : reply'.text[k] = "\" not found"
            /\ NoDatabaseCall
            /\ databases' = databases]_vars

\* a duplicate connect-database has been refused while the first connection
\* stays registered
C24_Witness ==
  /\ reply.tool = "connect-database" /\ reply.had /\ reply.isError
  /\ ReplySays("\" already exists")
  /\ databases[reply.id] # 0 /\ objects[databases[reply.id]].state = "connected"

\* C27: under any interleaving of connect-database, disconnect-database and
\* execute-* calls, every Database whose connect() succeeded is registered
\* under its connectionId or has had disconnect() called on it: none is lost
\* by being overwritten in the map.
C27_NoConnectionLeaks ==
  \A o \in DOMAIN objects :
    objects[o].state = "connected" =>
      databases[objects[o].id] = o \/ objects[o].disconnectCalled

\* C28: the map changes only on success: an entry is added by connect-database
\* only as db.connect() resolves, removed by disconnect-database only as
\* db.disconnect() resolves; a step that returns an error result, and every
\* step of execute-query and execute-update, leaves the map as it is.
C28_MapChangesOnlyOnSuccess ==
  [][/\ databases' # databases =>
          /\ Replied /\ ~reply'.isError
          /\ \/ /\ reply'.tool = "connect-database"
                /\ \E o \in DOMAIN objects :
                     /\ objects[o].state = "connecting" /\ objects'[o].state = "connected"
                     /\ databases' = [databases EXCEPT ![reply'.id] = o]
             \/ /\ reply'.tool = "disconnect-database"
                /\ \E o \in DOMAIN objects :
                     /\ objects[o].id = reply'.id
                     /\ objects[o].disconnectCalled /\ objects'[o].state = "closed"
                     /\ databases' = [databases EXCEPT ![reply'.id] = 0]
     /\ (Replied /\ reply'.isError) => databases' = databases
     /\ (Replied /\ reply'.tool \in {"execute-query", "execute-update"}) =>
          databases' = databases]_vars

\* a disconnect() that rejected has left the entry registered
C28_Witness ==
  /\ reply.tool = "disconnect-database" /\ reply.isError /\ reply.had
  /\ databases[reply.id] # 0

====
